---- MODULE Spec2Model ----
(***************************************************************************)
(* A model of the game recommendation engine (BrickVerse).                 *)
(*                                                                         *)
(* Numbers.  The program computes with IEEE doubles; the model computes    *)
(* in fixed point.  Signal values (the fields of a breakdown) are in       *)
(* thousandths, weights are in tenths, so a composite score is in          *)
(* ten-thousandths.  Moderation scores and the moderation threshold are    *)
(* in hundredths.  Times are in ticks, TicksPerDay ticks to a day, so that *)
(* the Math.floor of the day computations is visible.                      *)
(***************************************************************************)
EXTENDS Integers, Sequences, FiniteSets, TLC

VARIABLES
    config,             \* RecommendationEngine.config
    sponsoredEnabled,   \* CandidateGenerator.sponsoredEnabled
    eligibilityFilter,  \* EligibilityFilter.config
    scoringEngine,      \* ScoringEngine.config
    diversityPass,      \* DiversityPass.config
    sponsoredInjector,  \* SponsoredInjector.maxSponsoredPerList
    now,                \* the wall clock read by new Date(), in ticks
    userContext,        \* argument: UserContext
    userHistory,        \* argument: UserHistory
    candidates,         \* argument of filterEligible: Game[]
    eligible,           \* result of filterEligible
    verdict,            \* the last isEligible call: its argument and result
    returned,           \* the operations that have returned a result so far
    scored,             \* result of the last scoreGames call
    prevScored,         \* result of the scoreGames call before it
    calls,              \* number of scoreGames calls made
    sortedGames,        \* argument of diversify: ScoredGame[]
    divIdx,             \* diversify: index of the next input item of the for loop
    diversified,        \* diversify: local list `diversified`
    genreCounts,        \* diversify: local map `genreCounts`
    divPc,              \* diversify: "idle", "loop" (in the for loop) or "done"
    warnings,           \* console.warn lines emitted by ensureMinimumRequirements
    pc,                 \* generateRecommendations: the await the call is suspended at
    candidateSet,       \* generateCandidates: local map `candidateSet`, in insertion order
    sponsoredGames,     \* generateRecommendations: local `sponsoredGames`
    withSponsored,      \* generateRecommendations: local `withSponsored`
    popularGames,       \* generateRecommendations: local `popularGames`
    trendingGames,      \* generateRecommendations: local `trendingGames`
    chartCandidates,    \* generateTopTrending: local `candidates`
    chartList,          \* generateTopTrending: local `chartList`
    buckets,            \* the RecommendationBucket[] the call returned
    mergedBuckets,      \* result of mergeBuckets
    issued,             \* the data-source calls the call in progress has issued, in order
    rejected,           \* the data-source call that rejected, or "none"
    chartPc,            \* generateChart: "idle", the await it is suspended at, "done" or "failed"
    chartType,          \* generateChart argument chartType
    chartLimit,         \* generateChart argument limit
    chartGenre,         \* generateChart argument genreId: <<>> when undefined, else <<id>>
    chartAll,           \* the answer of fetchGamesByAgeAndPlatform
    chartIdx,           \* number of candidates the for loop of the generator has taken
    chart,              \* the ChartEntry[] generateChart returned
    metricsDb,          \* ChartDataSource: the metrics getGameMetrics answers, by game id
    configsSeen,        \* the values this.config has held since generateRecommendations was called
    usedConfig,         \* the config values stages 2 to 5 of the call have read, <<>> before
    sourceDb            \* CandidateDataSource: the list each of its calls answers, by call name

vars == <<config, sponsoredEnabled, eligibilityFilter, scoringEngine, diversityPass,
          sponsoredInjector, now, userContext,
          userHistory, candidates, eligible, verdict, returned, scored, prevScored, calls,
          sortedGames, divIdx, diversified, genreCounts, divPc, warnings,
          pc, candidateSet, sponsoredGames, withSponsored, popularGames, trendingGames,
          chartCandidates, chartList, buckets, mergedBuckets, issued, rejected,
          chartPc, chartType, chartLimit, chartGenre, chartAll, chartIdx, chart, metricsDb,
          configsSeen, usedConfig, sourceDb>>

\* The value of `verdict` before the first isEligible call.
NoVerdict == [game |-> "none", result |-> FALSE]

(***************************************************************************)
(* Helpers on sequences and numbers.                                       *)
(***************************************************************************)
Range(s) == {s[i] : i \in 1..Len(s)}

SeqsUpTo(S, n) == UNION {[1..k -> S] : k \in 0..n}

Min(a, b) == IF a <= b THEN a ELSE b

RECURSIVE SumOver(_, _)
SumOver(f, S) ==
    IF S = {} THEN 0
    ELSE LET x == CHOOSE y \in S : TRUE IN f[x] + SumOver(f, S \ {x})

(***************************************************************************)
(* types.ts                                                                *)
(***************************************************************************)
AgeBand == {"UNDER_9", "AGE_9_TO_12", "AGE_13_PLUS"}

Platform == {"PC", "MOBILE", "VR", "CONSOLE"}

GameFeature == {"VOICE_CHAT", "TEXT_CHAT", "MULTIPLAYER", "SINGLE_PLAYER", "LOW_INTENSITY"}

\* Game identifiers, in ascending (string) order.
GameIdSeq == <<"g1", "g2", "g3", "g4", "g5", "g6">>

GameIdOrd(id) == CHOOSE i \in 1..Len(GameIdSeq) : GameIdSeq[i] = id

\* A genre vector is a Map<GenreId, number>: a function from the genre ids it
\* holds (its keys) to their weights.
EmptyVector == [g \in {} |-> 0]

\* A Game with the given identifier and otherwise unremarkable metadata.
BaseGame(id) ==
    [gameId          |-> id,
     minAgeBand      |-> "UNDER_9",
     moderationScore |-> 90,
     releaseDate     |-> 0,
     creationDate    |-> 0,
     isSponsored     |-> FALSE,
     sponsoredAmount |-> 0,
     genreVector     |-> EmptyVector,
     features        |-> {},
     playsByAgeBand  |-> [a \in AgeBand |-> 0],
     likes           |-> 0,
     dislikes        |-> 0]

(***************************************************************************)
(* config.ts: DEFAULT_CONFIG (weights in tenths, threshold in hundredths,  *)
(* sponsoredAmountMultiplier and maxSponsoredBoost in thousandths).        *)
(***************************************************************************)
DEFAULT_CONFIG ==
    [weights |-> [genreAffinity          |-> 10,
                  ageBandPopularity      |-> 8,
                  engagementSimilarity   |-> 9,
                  favouriteAffinity      |-> 12,
                  communityRating        |-> 7,
                  recencyBoost           |-> 5,
                  sponsoredBoost         |-> 3,
                  repetitionPenalty      |-> 20,
                  creationRecencyPenalty |-> 15],
     moderationThreshold       |-> 80,
     recencyDecayDays          |-> 90,
     creationGracePeriodDays   |-> 7,
     creationPenaltyMaxDays    |-> 30,
     sponsoredAmountMultiplier |-> 1,
     maxSponsoredBoost         |-> 2000,
     maxResults                |-> 50,
     maxSponsoredPerList       |-> 3,
     diversityRules |-> [minGenres           |-> 2,
                         maxPerGenre         |-> 5,
                         requireLowIntensity |-> TRUE,
                         avoidAllMultiplayer |-> TRUE]]

(***************************************************************************)
(* eligibilityFilter.ts                                                    *)
(***************************************************************************)
ageBandOrder ==
    [a \in AgeBand |->
        CASE a = "UNDER_9"     -> 0
          [] a = "AGE_9_TO_12" -> 1
          [] a = "AGE_13_PLUS" -> 2]

isAgeBandEligibleOffByOne(game, userAgeBand) ==
    ageBandOrder[game.minAgeBand] <= ageBandOrder[userAgeBand] + 1

isAgeBandEligible(game, userAgeBand) ==
    ageBandOrder[game.minAgeBand] <= ageBandOrder[userAgeBand]

passesModerationStrict(filterConfig, game) ==
    game.moderationScore > filterConfig.moderationThreshold

passesModeration(filterConfig, game) ==
    game.moderationScore >= filterConfig.moderationThreshold

checkFeatureRestrictionsUnder9(game, userAgeBand) ==
    IF userAgeBand = "UNDER_9"
    THEN "VOICE_CHAT" \notin game.features
    ELSE TRUE

checkFeatureRestrictions(game, userAgeBand) ==
    IF userAgeBand # "AGE_13_PLUS"
    THEN "VOICE_CHAT" \notin game.features
    ELSE TRUE

isEligibleNoFeatures(filterConfig, game, user) ==
    /\ isAgeBandEligible(game, user.ageBand)
    /\ passesModeration(filterConfig, game)

isEligible(filterConfig, game, user) ==
    /\ isAgeBandEligible(game, user.ageBand)
    /\ passesModeration(filterConfig, game)
    /\ checkFeatureRestrictions(game, user.ageBand)

\* The for loop of filterEligible: each candidate in turn, pushed onto
\* `eligible` unless one of the three checks says `continue`.
RECURSIVE filterEligible(_, _, _)
filterEligible(filterConfig, games, user) ==
    IF games = <<>> THEN <<>>
    ELSE LET game == Head(games)
             rest == filterEligible(filterConfig, Tail(games), user)
         IN IF ~isAgeBandEligible(game, user.ageBand) THEN rest
            ELSE IF ~passesModeration(filterConfig, game) THEN rest
            ELSE IF ~checkFeatureRestrictions(game, user.ageBand) THEN rest
            ELSE <<game>> \o rest

(***************************************************************************)
(* scoringEngine.ts                                                        *)
(***************************************************************************)
\* floor(sqrt(n)), by bisection.
RECURSIVE ISqrtBetween(_, _, _)
ISqrtBetween(n, lo, hi) ==
    IF lo >= hi THEN lo
    ELSE LET mid == (lo + hi + 1) \div 2
         IN IF mid * mid <= n THEN ISqrtBetween(n, mid, hi)
            ELSE ISqrtBetween(n, lo, mid - 1)

\* Math.sqrt(n) in hundredths.
SqrtCenti(n) == ISqrtBetween(n * 10000, 0, 100 * (n + 1))

\* Math.log(n) in thousandths, for the integers 1 .. 40.
LnTable ==
    <<0, 693, 1098, 1386, 1609, 1791, 1945, 2079, 2197, 2302,
      2397, 2484, 2564, 2639, 2708, 2772, 2833, 2890, 2944, 2995,
      3044, 3091, 3135, 3178, 3218, 3258, 3295, 3332, 3367, 3401,
      3433, 3465, 3496, 3526, 3555, 3583, 3610, 3637, 3663, 3688>>

LnMilli(n) == LnTable[n]

\* Math.log(1000) in thousandths.
Ln1000Milli == 6907

\* Math.exp(-days / decay) in thousandths: the power series, in millionths.
RECURSIVE ExpSeries(_, _, _, _)
ExpSeries(days, decay, k, term) ==
    IF k > 10 THEN 0
    ELSE LET next == (term * (0 - days)) \div (decay * k)
         IN next + ExpSeries(days, decay, k + 1, next)

ExpNegMilli(days, decay) == (1000000 + ExpSeries(days, decay, 1, 1000000)) \div 1000

\* Ticks of the clock to a day (the code divides milliseconds by 1000*60*60*24).
TicksPerDay == 2

\* Math.floor((now.getTime() - date.getTime()) / (1000 * 60 * 60 * 24))
daysSince(clock, date) == (clock - date) \div TicksPerDay

\* vec.get(genreId) || 0
weightOf(vec, genreId) == IF genreId \in DOMAIN vec THEN vec[genreId] ELSE 0

cosineSimilarity(vec1, vec2) ==
    LET allGenres  == DOMAIN vec1 \cup DOMAIN vec2
        dotProduct == SumOver([g \in allGenres |-> weightOf(vec1, g) * weightOf(vec2, g)], allGenres)
        magnitude1 == SumOver([g \in allGenres |-> weightOf(vec1, g) * weightOf(vec1, g)], allGenres)
        magnitude2 == SumOver([g \in allGenres |-> weightOf(vec2, g) * weightOf(vec2, g)], allGenres)
    IN IF magnitude1 = 0 \/ magnitude2 = 0 THEN 0
       ELSE (dotProduct * 10000000) \div (SqrtCenti(magnitude1) * SqrtCenti(magnitude2))

computeGenreAffinity(userVector, gameVector) == cosineSimilarity(userVector, gameVector)

computeAgeBandPopularity(game, ageBand) == LnMilli(1 + game.playsByAgeBand[ageBand])

averageSimilarityToList(game, gameIds) == IF Len(gameIds) > 0 THEN 300 ELSE 0

computeEngagementSimilarity(game, history) ==
    LET longPlaySimilarity == averageSimilarityToList(game, history.longPlayGames)
        likedSimilarity    == averageSimilarityToList(game, history.likedGames)
    IN (longPlaySimilarity + likedSimilarity) \div 2

computeFavouriteAffinity(game, history) ==
    (averageSimilarityToList(game, history.favouritedGames) * 15) \div 10

computeCommunityRating(game) ==
    LET totalReactions == game.likes + game.dislikes
    IN IF totalReactions = 0 THEN 0
       ELSE LET ratio      == ((game.likes - game.dislikes) * 1000) \div totalReactions
                confidence == Min(1000, (LnMilli(1 + totalReactions) * 1000) \div Ln1000Milli)
            IN (ratio * confidence) \div 1000

computeRecencyBoost(cfg, clock, game) ==
    ExpNegMilli(daysSince(clock, game.releaseDate), cfg.recencyDecayDays)

computeSponsoredBoostUncapped(cfg, game) ==
    IF ~game.isSponsored \/ game.sponsoredAmount <= 0 THEN 0
    ELSE game.sponsoredAmount * cfg.sponsoredAmountMultiplier

computeSponsoredBoost(cfg, game) ==
    IF ~game.isSponsored \/ game.sponsoredAmount <= 0 THEN 0
    ELSE LET rawBoost == game.sponsoredAmount * cfg.sponsoredAmountMultiplier
         IN Min(rawBoost, cfg.maxSponsoredBoost)

computeRepetitionPenalty(game, history) ==
    IF game.gameId \in history.heavilyPlayed THEN 1000 ELSE 0

computeCreationRecencyPenalty(cfg, clock, game) ==
    LET daysSinceCreation == daysSince(clock, game.creationDate)
    IN IF daysSinceCreation < cfg.creationGracePeriodDays THEN 1000
       ELSE IF daysSinceCreation >= cfg.creationPenaltyMaxDays THEN 0
       ELSE LET decayRange  == cfg.creationPenaltyMaxDays - cfg.creationGracePeriodDays
                daysInDecay == daysSinceCreation - cfg.creationGracePeriodDays
            IN 1000 - (daysInDecay * 1000) \div decayRange

\* The `breakdown` object literal of scoreGames.
computeBreakdown(cfg, clock, game, user, history) ==
    [genreAffinity          |-> computeGenreAffinity(user.genreVector, game.genreVector),
     ageBandPopularity      |-> computeAgeBandPopularity(game, user.ageBand),
     engagementSimilarity   |-> computeEngagementSimilarity(game, history),
     favouriteAffinity      |-> computeFavouriteAffinity(game, history),
     communityRating        |-> computeCommunityRating(game),
     recencyBoost           |-> computeRecencyBoost(cfg, clock, game),
     sponsoredBoost         |-> computeSponsoredBoost(cfg, game),
     repetitionPenalty      |-> computeRepetitionPenalty(game, history),
     creationRecencyPenalty |-> computeCreationRecencyPenalty(cfg, clock, game)]

compositeScoreAddsPenalty(cfg, breakdown) ==
    cfg.weights.genreAffinity * breakdown.genreAffinity +
    cfg.weights.ageBandPopularity * breakdown.ageBandPopularity +
    cfg.weights.engagementSimilarity * breakdown.engagementSimilarity +
    cfg.weights.favouriteAffinity * breakdown.favouriteAffinity +
    cfg.weights.communityRating * breakdown.communityRating +
    cfg.weights.recencyBoost * breakdown.recencyBoost +
    cfg.weights.sponsoredBoost * breakdown.sponsoredBoost -
    cfg.weights.repetitionPenalty * breakdown.repetitionPenalty +
    cfg.weights.creationRecencyPenalty * breakdown.creationRecencyPenalty

\* The `score` expression of scoreGames.
compositeScore(cfg, breakdown) ==
    cfg.weights.genreAffinity * breakdown.genreAffinity +
    cfg.weights.ageBandPopularity * breakdown.ageBandPopularity +
    cfg.weights.engagementSimilarity * breakdown.engagementSimilarity +
    cfg.weights.favouriteAffinity * breakdown.favouriteAffinity +
    cfg.weights.communityRating * breakdown.communityRating +
    cfg.weights.recencyBoost * breakdown.recencyBoost +
    cfg.weights.sponsoredBoost * breakdown.sponsoredBoost -
    cfg.weights.repetitionPenalty * breakdown.repetitionPenalty -
    cfg.weights.creationRecencyPenalty * breakdown.creationRecencyPenalty

\* One iteration of the for loop of scoreGames: { game, score, breakdown }.
scoreGame(cfg, clock, game, user, history) ==
    LET breakdown == computeBreakdown(cfg, clock, game, user, history)
    IN [game |-> game, score |-> compositeScore(cfg, breakdown), breakdown |-> breakdown]

\* The comparator handed to Array.prototype.sort: (a, b) => b.score - a.score.
compareByScoreDesc(a, b) == b.score - a.score

\* Array.prototype.sort is stable: an element goes behind every element
\* already placed that the comparator does not put after it.
insertSorted(sorted, x) ==
    LET k == Cardinality({i \in 1..Len(sorted) : compareByScoreDesc(sorted[i], x) <= 0})
    IN SubSeq(sorted, 1, k) \o <<x>> \o SubSeq(sorted, k + 1, Len(sorted))

RECURSIVE sortPrefix(_, _)
sortPrefix(list, n) ==
    IF n = 0 THEN <<>> ELSE insertSorted(sortPrefix(list, n - 1), list[n])

sortByScoreDesc(list) == sortPrefix(list, Len(list))

scoreGames(cfg, clock, eligibleGames, user, history) ==
    sortByScoreDesc([i \in 1..Len(eligibleGames) |->
                        scoreGame(cfg, clock, eligibleGames[i], user, history)])

(***************************************************************************)
(* diversityPass.ts                                                        *)
(***************************************************************************)
\* genreCounts.get(genreId) || 0
countOf(counts, genreId) == IF genreId \in DOMAIN counts THEN counts[genreId] ELSE 0

violatesMaxPerGenreOffByOne(cfg, scoredGame, counts) ==
    \E genreId \in DOMAIN scoredGame.game.genreVector :
        countOf(counts, genreId) > cfg.diversityRules.maxPerGenre

violatesMaxPerGenre(cfg, scoredGame, counts) ==
    \E genreId \in DOMAIN scoredGame.game.genreVector :
        countOf(counts, genreId) >= cfg.diversityRules.maxPerGenre

violatesAllMultiplayerOffByOne(cfg, scoredGame, list) ==
    IF ~cfg.diversityRules.avoidAllMultiplayer THEN FALSE
    ELSE IF "MULTIPLAYER" \in scoredGame.game.features
         THEN LET allMultiplayer ==
                      \A i \in 1..Len(list) : "MULTIPLAYER" \in list[i].game.features
              IN allMultiplayer /\ Len(list) > 1
         ELSE FALSE

violatesAllMultiplayer(cfg, scoredGame, list) ==
    IF ~cfg.diversityRules.avoidAllMultiplayer THEN FALSE
    ELSE IF "MULTIPLAYER" \in scoredGame.game.features
         THEN LET allMultiplayer ==
                      \A i \in 1..Len(list) : "MULTIPLAYER" \in list[i].game.features
              IN allMultiplayer /\ Len(list) > 0
         ELSE FALSE

violatesDiversityRules(cfg, scoredGame, list, counts) ==
    IF violatesMaxPerGenre(cfg, scoredGame, counts) THEN TRUE
    ELSE IF violatesAllMultiplayer(cfg, scoredGame, list) THEN TRUE
    ELSE FALSE

updateGenreCountsSetsOne(scoredGame, counts) ==
    [g \in DOMAIN counts \cup DOMAIN scoredGame.game.genreVector |->
        IF g \in DOMAIN scoredGame.game.genreVector THEN 1 ELSE counts[g]]

updateGenreCounts(scoredGame, counts) ==
    [g \in DOMAIN counts \cup DOMAIN scoredGame.game.genreVector |->
        IF g \in DOMAIN scoredGame.game.genreVector
        THEN countOf(counts, g) + 1
        ELSE counts[g]]

countUniqueGenres(list) ==
    Cardinality(UNION {DOMAIN list[i].game.genreVector : i \in 1..Len(list)})

ensureMinimumRequirementsAlwaysLow(cfg, list) ==
    (IF countUniqueGenres(list) < cfg.diversityRules.minGenres
     THEN {"genres"} ELSE {})
    \cup
    (IF ~\E i \in 1..Len(list) : "LOW_INTENSITY" \in list[i].game.features
     THEN {"lowIntensity"} ELSE {})

\* The console.warn calls of ensureMinimumRequirements; the list is not touched.
ensureMinimumRequirements(cfg, list) ==
    (IF countUniqueGenres(list) < cfg.diversityRules.minGenres
     THEN {"genres"} ELSE {})
    \cup
    (IF cfg.diversityRules.requireLowIntensity
        /\ ~\E i \in 1..Len(list) : "LOW_INTENSITY" \in list[i].game.features
     THEN {"lowIntensity"} ELSE {})

\* The state of the for loop of diversify before its first iteration.
divLoopInit == [diversified |-> <<>>, genreCounts |-> EmptyVector, stopped |-> FALSE]

divLoopBodyNoBreak(cfg, st, scoredGame) ==
    IF violatesDiversityRules(cfg, scoredGame, st.diversified, st.genreCounts)
    THEN st
    ELSE [diversified |-> Append(st.diversified, scoredGame),
          genreCounts |-> updateGenreCounts(scoredGame, st.genreCounts),
          stopped     |-> FALSE]

\* One iteration of the for loop of diversify on `scoredGame`: continue, or
\* push, count and (at maxResults) break.
divLoopBody(cfg, st, scoredGame) ==
    IF violatesDiversityRules(cfg, scoredGame, st.diversified, st.genreCounts)
    THEN st
    ELSE LET list == Append(st.diversified, scoredGame)
         IN [diversified |-> list,
             genreCounts |-> updateGenreCounts(scoredGame, st.genreCounts),
             stopped     |-> Len(list) >= cfg.maxResults]

RECURSIVE divLoop(_, _, _, _)
divLoop(cfg, st, list, i) ==
    IF i > Len(list) \/ st.stopped THEN st
    ELSE divLoop(cfg, divLoopBody(cfg, st, list[i]), list, i + 1)

\* diversify as a function of its argument: the list it returns.
diversify(cfg, list) == divLoop(cfg, divLoopInit, list, 1).diversified

(***************************************************************************)
(* candidateGenerator.ts                                                   *)
(***************************************************************************)
\* addToCandidateSet: each game is set under its identifier unless the map
\* has that identifier; the map keeps insertion order.
addToCandidateSetNoCheck(set, games) == set \o games

RECURSIVE addToCandidateSet(_, _)
addToCandidateSet(set, games) ==
    IF games = <<>> THEN set
    ELSE LET game == Head(games)
         IN IF \E i \in 1..Len(set) : set[i].gameId = game.gameId
            THEN addToCandidateSet(set, Tail(games))
            ELSE addToCandidateSet(Append(set, game), Tail(games))

(***************************************************************************)
(* bucketOrganizer.ts                                                      *)
(***************************************************************************)
\* list.filter(keep), for a predicate given as the set of kept indices.
RECURSIVE keepIndices(_, _, _)
keepIndices(list, kept, i) ==
    IF i > Len(list) THEN <<>>
    ELSE (IF i \in kept THEN <<list[i]>> ELSE <<>>) \o keepIndices(list, kept, i + 1)

\* list.slice(0, n), for n >= 0.
sliceTo(list, n) == SubSeq(list, 1, Min(n, Len(list)))

calculateInjectionSlotsShifted(organicCount, sponsoredCount) ==
    LET spacing == organicCount \div (sponsoredCount + 1)
    IN [k \in 1..sponsoredCount |-> spacing * k + k]

calculateInjectionSlotsNoOffset(organicCount, sponsoredCount) ==
    LET spacing == organicCount \div (sponsoredCount + 1)
    IN [k \in 1..sponsoredCount |-> spacing * k]

calculateInjectionSlots(organicCount, sponsoredCount) ==
    LET spacing == organicCount \div (sponsoredCount + 1)
    IN [k \in 1..sponsoredCount |-> spacing * k + (k - 1)]

\* The merge loop of injectSponsored, from position i (0-based) on.
RECURSIVE injectLoop(_, _, _, _, _, _)
injectLoop(organic, sponsored, slots, i, sponsoredIndex, organicIndex) ==
    IF i >= Len(organic) + Len(sponsored) THEN <<>>
    ELSE IF i \in Range(slots) /\ sponsoredIndex < Len(sponsored)
         THEN <<sponsored[sponsoredIndex + 1]>>
              \o injectLoop(organic, sponsored, slots, i + 1, sponsoredIndex + 1, organicIndex)
         ELSE IF organicIndex < Len(organic)
              THEN <<organic[organicIndex + 1]>>
                   \o injectLoop(organic, sponsored, slots, i + 1, sponsoredIndex, organicIndex + 1)
              ELSE injectLoop(organic, sponsored, slots, i + 1, sponsoredIndex, organicIndex)

injectSponsoredKeepsExisting(maxSponsoredPerList, diversifiedGames, sponsoredList) ==
    LET eligibleSponsored == sliceTo(sponsoredList, maxSponsoredPerList)
    IN IF Len(eligibleSponsored) = 0 THEN diversifiedGames
       ELSE injectLoop(diversifiedGames, eligibleSponsored,
                       calculateInjectionSlots(Len(diversifiedGames), Len(eligibleSponsored)),
                       0, 0, 0)

injectSponsored(maxSponsoredPerList, diversifiedGames, sponsoredList) ==
    LET existingIds == {diversifiedGames[i].game.gameId : i \in 1..Len(diversifiedGames)}
        eligibleSponsored ==
            sliceTo(keepIndices(sponsoredList,
                                {i \in 1..Len(sponsoredList) :
                                    sponsoredList[i].game.gameId \notin existingIds},
                                1),
                    maxSponsoredPerList)
    IN IF Len(eligibleSponsored) = 0 THEN diversifiedGames
       ELSE injectLoop(diversifiedGames, eligibleSponsored,
                       calculateInjectionSlots(Len(diversifiedGames), Len(eligibleSponsored)),
                       0, 0, 0)

\* games.map((sg) => sg.game.gameId)
gameIdsOf(list) == [i \in 1..Len(list) |-> list[i].game.gameId]

organizeBucketsSponsoredFirst(recommendedList, popularList, trendingList, sponsoredList) ==
    (IF Len(sponsoredList) > 0
     THEN <<[id |-> "sponsored_events", title |-> "Sponsored Events",
             games |-> gameIdsOf(sponsoredList)]>>
     ELSE <<>>)
    \o (IF Len(recommendedList) > 0
        THEN <<[id |-> "recommended_for_you", title |-> "Recommended For You",
                games |-> gameIdsOf(recommendedList)]>>
        ELSE <<>>)
    \o (IF Len(popularList) > 0
        THEN <<[id |-> "popular_by_age", title |-> "Popular in Your Age Group",
                games |-> gameIdsOf(popularList)]>>
        ELSE <<>>)
    \o (IF Len(trendingList) > 0
        THEN <<[id |-> "new_and_trending", title |-> "New & Trending",
                games |-> gameIdsOf(trendingList)]>>
        ELSE <<>>)

organizeBuckets(recommendedList, popularList, trendingList, sponsoredList) ==
    (IF Len(recommendedList) > 0
     THEN <<[id |-> "recommended_for_you", title |-> "Recommended For You",
             games |-> gameIdsOf(recommendedList)]>>
     ELSE <<>>)
    \o (IF Len(popularList) > 0
        THEN <<[id |-> "popular_by_age", title |-> "Popular in Your Age Group",
                games |-> gameIdsOf(popularList)]>>
        ELSE <<>>)
    \o (IF Len(trendingList) > 0
        THEN <<[id |-> "new_and_trending", title |-> "New & Trending",
                games |-> gameIdsOf(trendingList)]>>
        ELSE <<>>)
    \o (IF Len(sponsoredList) > 0
        THEN <<[id |-> "sponsored_events", title |-> "Sponsored Events",
                games |-> gameIdsOf(sponsoredList)]>>
        ELSE <<>>)

\* bucket.games.filter(...) of mergeBuckets: the identifiers of `games`
\* that are not in `seenGameIds`, each at its first position.
RECURSIVE uniqueGames(_, _)
uniqueGames(games, seenGameIds) ==
    IF games = <<>> THEN <<>>
    ELSE IF Head(games) \in seenGameIds
         THEN uniqueGames(Tail(games), seenGameIds)
         ELSE <<Head(games)>> \o uniqueGames(Tail(games), seenGameIds \cup {Head(games)})

\* The for loop of mergeBuckets from `bucketList` on.
RECURSIVE mergeLoop(_, _)
mergeLoop(bucketList, seenGameIds) ==
    IF bucketList = <<>> THEN <<>>
    ELSE LET bucket == Head(bucketList)
             unique == uniqueGames(bucket.games, seenGameIds)
             rest   == mergeLoop(Tail(bucketList), seenGameIds \cup Range(bucket.games))
         IN IF Len(unique) > 0
            THEN <<[bucket EXCEPT !.games = unique]>> \o rest
            ELSE rest

mergeBucketsPerBucket(bucketList) ==
    LET merged == [b \in 1..Len(bucketList) |->
                      [bucketList[b] EXCEPT !.games = uniqueGames(bucketList[b].games, {})]]
    IN SelectSeq(merged, LAMBDA bucket : Len(bucket.games) > 0)

mergeBuckets(bucketList) == mergeLoop(bucketList, {})

(***************************************************************************)
(* chartGenerator.ts: generateTopTrending                                  *)
(***************************************************************************)
trendingScoreRatio(metrics) ==
    IF metrics.playsPrev7Days = 0 THEN metrics.playsLast7Days * 1000
    ELSE (metrics.playsLast7Days * 1000) \div metrics.playsPrev7Days

\* The score of Top Trending, in thousandths.
trendingScore(metrics) ==
    IF metrics.playsPrev7Days = 0 THEN metrics.playsLast7Days * 1000
    ELSE ((metrics.playsLast7Days - metrics.playsPrev7Days) * 1000) \div metrics.playsPrev7Days

rankChartFromZero(list, limit) ==
    LET top == sliceTo(sortByScoreDesc(list), limit)
    IN [i \in 1..Len(top) |-> [gameId |-> top[i].gameId, score |-> top[i].score, rank |-> i - 1]]

\* chartList.sort(...), .slice(0, limit) and the ranks 1, 2, ...
rankChart(list, limit) ==
    LET top == sliceTo(sortByScoreDesc(list), limit)
    IN [i \in 1..Len(top) |-> [gameId |-> top[i].gameId, score |-> top[i].score, rank |-> i]]

\* The seven generators of ChartGenerator, by the chart type generateChart
\* dispatches on.
ChartType ==
    {"TOP_TRENDING", "UP_AND_COMING", "TOP_PLAYING_NOW", "TOP_REPLAYED", "TOP_EARNING",
     "TOP_RATED", "TRENDING_IN_GENRE"}

\* generateUpAndComing: `continue` before the metrics are fetched, for a game
\* released more than 30 days ago.
skipsBeforeFetch(kind, clock, game) ==
    kind = "UP_AND_COMING" /\ daysSince(clock, game.releaseDate) > 30

\* generateTopReplayed and generateTopRated: `continue` after the metrics
\* are fetched.
skipsAfterFetch(kind, metrics) ==
    \/ kind = "TOP_REPLAYED" /\ metrics.uniquePlayers = 0
    \/ kind = "TOP_RATED" /\ metrics.likes + metrics.dislikes = 0

\* The score of an entry, in thousandths.
chartScore(kind, clock, game, metrics) ==
    CASE kind \in {"TOP_TRENDING", "TRENDING_IN_GENRE"} -> trendingScore(metrics)
      [] kind = "UP_AND_COMING" ->
            LET daysSinceRelease == daysSince(clock, game.releaseDate)
                recencyWeight    == 1000 - (daysSinceRelease * 1000) \div 30
                engagementScore  == LnMilli(1 + metrics.playsLast30Days)
            IN (recencyWeight * 4 + engagementScore * 6) \div 10
      [] kind = "TOP_PLAYING_NOW" -> metrics.currentSessions * 1000
      [] kind = "TOP_REPLAYED" -> (metrics.totalSessions * 1000) \div metrics.uniquePlayers
      [] kind = "TOP_EARNING" -> metrics.totalRevenue * 1000
      [] kind = "TOP_RATED" ->
            LET totalReactions == metrics.likes + metrics.dislikes
                ratio      == ((metrics.likes - metrics.dislikes) * 1000) \div totalReactions
                confidence == Min(1000, (LnMilli(1 + totalReactions) * 1000) \div Ln1000Milli)
            IN (ratio * confidence) \div 1000

chartCandidatesOfAll(kind, genre, allCandidates) == allCandidates

\* generateTrendingInGenre: allCandidates.filter(game => game.genreVector.has(genreId));
\* the other generators loop over the answer as it is.
chartCandidatesOf(kind, genre, allCandidates) ==
    IF kind = "TRENDING_IN_GENRE"
    THEN SelectSeq(allCandidates,
                   LAMBDA game : genre # <<>> /\ genre[1] \in DOMAIN game.genreVector)
    ELSE allCandidates

\* The position, from idx on, of the next candidate whose metrics the for
\* loop fetches; past the end when there is none.
RECURSIVE nextFetch(_, _, _, _)
nextFetch(kind, clock, list, idx) ==
    IF idx > Len(list) THEN idx
    ELSE IF skipsBeforeFetch(kind, clock, list[idx])
         THEN nextFetch(kind, clock, list, idx + 1)
         ELSE idx

genreIdNeverMissing(genre) == FALSE

\* if (!genreId): no genre id, or the genre id 0.
genreIdMissing(genre) == genre = <<>> \/ genre[1] = 0

(***************************************************************************)
(* recommendationEngine.ts                                                 *)
(***************************************************************************)
\* The breakdown literal of getPopularGames.
ZeroBreakdown ==
    [genreAffinity |-> 0, ageBandPopularity |-> 0, engagementSimilarity |-> 0,
     favouriteAffinity |-> 0, communityRating |-> 0, recencyBoost |-> 0,
     sponsoredBoost |-> 0, repetitionPenalty |-> 0, creationRecencyPenalty |-> 0]

zeroScoredUnfiltered(filterConfig, games, user) ==
    [i \in 1..Len(games) |-> [game |-> games[i], score |-> 0, breakdown |-> ZeroBreakdown]]

\* getPopularGames after its await: the eligible games of the response, each
\* with score 0 and a breakdown of zeros.
zeroScoredEligible(filterConfig, games, user) ==
    LET list == filterEligible(filterConfig, games, user)
    IN [i \in 1..Len(list) |-> [game |-> list[i], score |-> 0, breakdown |-> ZeroBreakdown]]

\* scored.filter((sg) => sg.game.isSponsored)
sponsoredOf(scoredList) ==
    keepIndices(scoredList, {i \in 1..Len(scoredList) : scoredList[i].game.isSponsored}, 1)

\* { ...this.config, ...newConfig }
mergeConfig(cfg, newConfig) ==
    [k \in DOMAIN cfg |-> IF k \in DOMAIN newConfig THEN newConfig[k] ELSE cfg[k]]

(***************************************************************************)
(* The inputs the specifications draw from.                                *)
(***************************************************************************)
\* Longest candidate list handed to filterEligible.
MaxFilterLen == 2

\* Longest list handed to scoreGames.
MaxScoreLen == 2

\* Longest list handed to diversify.
MaxDivLen == 3

\* The clock runs from 0 to MaxNow ticks.
MaxNow == 2

\* scoreGames is called at most MaxCalls times in a behaviour.
MaxCalls == 2

EmptyHistory ==
    [longPlayGames |-> <<>>, likedGames |-> <<>>, favouritedGames |-> <<>>,
     heavilyPlayed |-> {}]

RichHistory ==
    [longPlayGames |-> <<"g1">>, likedGames |-> <<"g2">>, favouritedGames |-> <<"g1">>,
     heavilyPlayed |-> {"g1"}]

User(ageBand, genreVector) ==
    [userId |-> "user-123", ageBand |-> ageBand, platform |-> "PC",
     genreVector |-> genreVector]

\* Items of every minimum age band, below, at and above the thresholds, with
\* and without voice chat; the i-th item of a list has the i-th identifier.
FilterProfiles ==
    [minAgeBand : AgeBand, moderationScore : {75, 80, 85},
     features : {{}, {"VOICE_CHAT", "TEXT_CHAT"}}]

FilterGame(id, p) ==
    [BaseGame(id) EXCEPT !.minAgeBand = p.minAgeBand,
                         !.moderationScore = p.moderationScore,
                         !.features = p.features]

FilterInputs ==
    {[i \in 1..Len(ps) |-> FilterGame(GameIdSeq[i], ps[i])] :
        ps \in SeqsUpTo(FilterProfiles, MaxFilterLen)}

ModerationThresholds == {80, 85}

\* Items for scoring: sponsored above and below the cap, sponsored without
\* an amount, an amount without the flag; released and created at various ages.
ScoreProfiles ==
    {[isSponsored |-> TRUE, sponsoredAmount |-> 2500, genreVector |-> (1 :> 1),
      plays |-> 9, releaseDate |-> -20, creationDate |-> -80, likes |-> 8, dislikes |-> 2],
     [isSponsored |-> TRUE, sponsoredAmount |-> 500, genreVector |-> (1 :> 1) @@ (2 :> 2),
      plays |-> 0, releaseDate |-> -20, creationDate |-> -21, likes |-> 0, dislikes |-> 0],
     [isSponsored |-> FALSE, sponsoredAmount |-> 2500, genreVector |-> EmptyVector,
      plays |-> 3, releaseDate |-> 0, creationDate |-> 0, likes |-> 0, dislikes |-> 3],
     [isSponsored |-> TRUE, sponsoredAmount |-> 0, genreVector |-> (2 :> 1),
      plays |-> 0, releaseDate |-> -200, creationDate |-> -200, likes |-> 1, dislikes |-> 1]}

ScoreGame(id, p) ==
    [BaseGame(id) EXCEPT !.isSponsored = p.isSponsored,
                         !.sponsoredAmount = p.sponsoredAmount,
                         !.genreVector = p.genreVector,
                         !.playsByAgeBand = [a \in AgeBand |-> IF a = "AGE_9_TO_12" THEN p.plays ELSE 0],
                         !.releaseDate = p.releaseDate,
                         !.creationDate = p.creationDate,
                         !.likes = p.likes,
                         !.dislikes = p.dislikes]

ScoreGames == {ScoreGame(id, p) : id \in {"g1", "g2"}, p \in ScoreProfiles}

AltWeights ==
    [genreAffinity |-> 12, ageBandPopularity |-> 9, engagementSimilarity |-> 0,
     favouriteAffinity |-> 1, communityRating |-> 10, recencyBoost |-> 20,
     sponsoredBoost |-> 10, repetitionPenalty |-> 5, creationRecencyPenalty |-> 1]

ScoreConfigs ==
    {DEFAULT_CONFIG,
     [DEFAULT_CONFIG EXCEPT !.sponsoredAmountMultiplier = 0],
     [DEFAULT_CONFIG EXCEPT !.sponsoredAmountMultiplier = 2, !.maxSponsoredBoost = 0],
     [DEFAULT_CONFIG EXCEPT !.weights = AltWeights, !.maxSponsoredBoost = 1500]}

\* Items for the diversity pass: no, one or two genres, multiplayer or low
\* intensity; the i-th item of a list has the i-th identifier.  The scores
\* are equal, so every list is sorted.
DivProfiles ==
    [genres : {{}, {1}, {2}, {1, 2}}, features : {{"MULTIPLAYER"}, {"LOW_INTENSITY"}}]

DivGame(id, p) ==
    [game |-> [BaseGame(id) EXCEPT !.genreVector = [g \in p.genres |-> 1],
                                   !.features = p.features],
     score |-> 0, breakdown |-> ZeroBreakdown]

DivInputs ==
    {[i \in 1..Len(ps) |-> DivGame(GameIdSeq[i], ps[i])] :
        ps \in SeqsUpTo(DivProfiles, MaxDivLen)}

DivConfigs ==
    {[DEFAULT_CONFIG EXCEPT !.maxResults = r,
                            !.diversityRules.maxPerGenre = m,
                            !.diversityRules.avoidAllMultiplayer = a,
                            !.diversityRules.requireLowIntensity = l] :
        r \in {1, 2, 3}, m \in {1, 2}, a \in BOOLEAN, l \in BOOLEAN}

\* Longest list a data source returns.
MaxResp == 1

\* The games the data sources know, one per identifier: an organic game for
\* everyone, a voice-chat game for 13 and over and much played by them, a
\* sponsored game, and a sponsored game below every moderation threshold in
\* use.
Catalog ==
    {[BaseGame("g1") EXCEPT !.genreVector = (1 :> 1), !.features = {"MULTIPLAYER"}],
     [BaseGame("g2") EXCEPT !.genreVector = (1 :> 1) @@ (2 :> 1), !.minAgeBand = "AGE_13_PLUS",
                            !.features = {"VOICE_CHAT", "LOW_INTENSITY"},
                            !.playsByAgeBand.AGE_13_PLUS = 39],
     [BaseGame("g3") EXCEPT !.genreVector = (1 :> 2), !.isSponsored = TRUE,
                            !.sponsoredAmount = 2500],
     [BaseGame("g4") EXCEPT !.genreVector = (2 :> 1), !.isSponsored = TRUE,
                            !.sponsoredAmount = 500, !.moderationScore = 60]}

\* What a candidate data source may answer.
Responses == SeqsUpTo(Catalog, MaxResp)

\* Longest list fetchGamesByAgeAndPlatform returns.
MaxChart == 2

\* What fetchGamesByAgeAndPlatform may answer.
ChartResponses == SeqsUpTo({g \in Catalog : g.gameId = "g1"}, MaxChart)

\* What getGameMetrics may answer.
MetricsResponses ==
    {[playsLast7Days |-> 100, playsPrev7Days |-> 50],
     [playsLast7Days |-> 40, playsPrev7Days |-> 0]}

\* The config the engine of the pipeline is constructed with.
PipeConfig ==
    [DEFAULT_CONFIG EXCEPT !.maxResults = 2, !.maxSponsoredPerList = 1,
                           !.diversityRules.maxPerGenre = 1]

\* The configs the engine of the pipeline is constructed with.
PipeConfigs == {PipeConfig, [PipeConfig EXCEPT !.maxSponsoredPerList = 0]}

\* The arguments updateConfig is called with.
ConfigUpdates ==
    {("moderationThreshold" :> 70) @@ ("maxResults" :> 1) @@ ("maxSponsoredPerList" :> 0)}

\* Longest list the genre-aligned and the popular-by-age source answer.
MaxSourceLen == 2

\* The calls of generateCandidates to its data source, in the order of the awaits.
SourceOrder ==
    <<"getTopGamesByGenres", "getPopularGamesByAgeBand", "getTrendingGames",
      "getEditorialPicks", "getSponsoredGames">>

\* The records the candidate sources hold: two records of g1 that differ in
\* their moderation score, and g2.
CandidatePool ==
    {BaseGame("g1"), [BaseGame("g1") EXCEPT !.moderationScore = 50], BaseGame("g2")}

\* What getTopGamesByGenres and getPopularGamesByAgeBand may answer.
SourceAnswers == SeqsUpTo(CandidatePool, MaxSourceLen)

\* What getTrendingGames, getEditorialPicks and getSponsoredGames may answer.
ShortAnswers == {<<>>, <<[BaseGame("g1") EXCEPT !.moderationScore = 50]>>}

\* Longest diversified list and longest sponsored list handed to
\* injectSponsored.
MaxInjectLen == 2

\* Longest popular list and longest trending list handed to organizeBuckets.
MaxSideLen == 1

\* The ScoredGame of a game of the catalogue, as getPopularGames builds it.
ZeroScored(id) ==
    [game |-> (CHOOSE g \in Catalog : g.gameId = id), score |-> 0, breakdown |-> ZeroBreakdown]

\* Diversified lists: organic games and a sponsored one, identifiers
\* repeated or not.
DiversifiedInputs == SeqsUpTo({ZeroScored(id) : id \in {"g1", "g2", "g3"}}, MaxInjectLen)

\* Lists of sponsored candidates, one of them a game of the diversified lists.
SponsoredInputs == SeqsUpTo({ZeroScored(id) : id \in {"g3", "g4"}}, MaxInjectLen)

SideInputs == SeqsUpTo({ZeroScored(id) : id \in {"g1", "g4"}}, MaxSideLen)

SponsoredCaps == {0, 1, 2}

\* The games fetchGamesByAgeAndPlatform knows: released 5 days, 31 days and
\* 30 days and a part of a day before the call, of genre 1, genre 2 and both.
ChartPool ==
    {[BaseGame("g1") EXCEPT !.releaseDate = -5 * TicksPerDay, !.genreVector = (1 :> 1)],
     [BaseGame("g2") EXCEPT !.releaseDate = -31 * TicksPerDay, !.genreVector = (2 :> 1)],
     [BaseGame("g3") EXCEPT !.releaseDate = -30 * TicksPerDay - 1,
                            !.genreVector = (1 :> 1) @@ (2 :> 1)]}

\* What getGameMetrics may answer for a game: a game in use and rated, and
\* a game nobody has played or rated but with sessions open.
GameMetrics ==
    {[playsLast7Days |-> 100, playsPrev7Days |-> 50, playsLast30Days |-> 30,
      totalSessions |-> 20, uniquePlayers |-> 10, currentSessions |-> 5,
      totalRevenue |-> 7, likes |-> 8, dislikes |-> 2, favourites |-> 1, totalPlays |-> 30],
     [playsLast7Days |-> 40, playsPrev7Days |-> 0, playsLast30Days |-> 0,
      totalSessions |-> 9, uniquePlayers |-> 0, currentSessions |-> 9,
      totalRevenue |-> 0, likes |-> 0, dislikes |-> 0, favourites |-> 0, totalPlays |-> 0]}

\* Largest number of plays of a week in the metrics of SpecTrending, the
\* plays of the examples (40, 50, 100) apart.
MaxPlays == 3

\* What getGameMetrics may answer for g1 in SpecTrending.
TrendMetrics ==
    {[playsLast7Days |-> last, playsPrev7Days |-> prev, playsLast30Days |-> 30,
      totalSessions |-> 20, uniquePlayers |-> 10, currentSessions |-> 5,
      totalRevenue |-> 7, likes |-> 8, dislikes |-> 2, favourites |-> 1, totalPlays |-> 30] :
        last \in (0..MaxPlays) \cup {40, 50, 100}, prev \in (0..MaxPlays) \cup {40, 50, 100}}

\* The chart types generateChart is called with: the seven of the enum and a
\* value outside it.
ChartTypeArgs == ChartType \cup {"TOP_FAVOURITED"}

ChartLimits == {0, 1, 2}

\* The genreId generateChart is called with: undefined, 0 or 1.
ChartGenres == {<<>>, <<0>>, <<1>>}

(***************************************************************************)
(* What the variables of a component hold while it is not in use.          *)
(***************************************************************************)
FilterIdle == candidates = <<>> /\ eligible = <<>> /\ verdict = NoVerdict /\ returned = {}

ScoreIdle == scored = <<>> /\ prevScored = <<>> /\ calls = 0

DivIdle ==
    /\ sortedGames = <<>>
    /\ divIdx = 0
    /\ diversified = <<>>
    /\ genreCounts = EmptyVector
    /\ divPc = "idle"
    /\ warnings = {}

filterVars == <<candidates, eligible, verdict, returned>>

scoreVars == <<scored, prevScored, calls>>

divVars == <<sortedGames, divIdx, diversified, genreCounts, divPc, warnings>>

engineVars == <<config, sponsoredEnabled, eligibilityFilter, scoringEngine, diversityPass,
                sponsoredInjector>>

callVars == <<issued, rejected>>

chartVars == <<chartPc, chartType, chartLimit, chartGenre, chartAll, chartIdx, chart, metricsDb>>

ChartIdle ==
    /\ chartPc = "idle"
    /\ chartType = "none"
    /\ chartLimit = 0
    /\ chartGenre = <<>>
    /\ chartAll = <<>>
    /\ chartIdx = 0
    /\ chart = <<>>
    /\ metricsDb = <<>>

pipeVars == <<pc, candidateSet, sponsoredGames, withSponsored, popularGames, trendingGames,
              chartCandidates, chartList, buckets, mergedBuckets, callVars, chartVars,
              configsSeen, usedConfig, sourceDb>>

PipeIdle ==
    /\ pc = "idle"
    /\ candidateSet = <<>>
    /\ sponsoredGames = <<>>
    /\ withSponsored = <<>>
    /\ popularGames = <<>>
    /\ trendingGames = <<>>
    /\ chartCandidates = <<>>
    /\ chartList = <<>>
    /\ buckets = <<>>
    /\ mergedBuckets = <<>>
    /\ issued = <<>>
    /\ rejected = "none"
    /\ ChartIdle
    /\ configsSeen = {}
    /\ usedConfig = <<>>
    /\ sourceDb = <<>>

\* A RecommendationEngine constructed from `cfg`.
EngineOf(cfg, enabled) ==
    /\ config = cfg
    /\ sponsoredEnabled = enabled
    /\ eligibilityFilter = [moderationThreshold |-> cfg.moderationThreshold]
    /\ scoringEngine = cfg
    /\ diversityPass = cfg
    /\ sponsoredInjector = cfg.maxSponsoredPerList

argVars == <<userContext, userHistory>>

(***************************************************************************)
(* SpecFilter: an EligibilityFilter, a candidate list and a user; the      *)
(* calls filterEligible(candidates, userContext) and isEligible(game,      *)
(* userContext).                                                           *)
(***************************************************************************)
InitFilter ==
    /\ \E t \in ModerationThresholds :
          EngineOf([DEFAULT_CONFIG EXCEPT !.moderationThreshold = t], TRUE)
    /\ PipeIdle
    /\ now = 0
    /\ userContext \in {User(a, EmptyVector) : a \in AgeBand}
    /\ userHistory = EmptyHistory
    /\ candidates \in FilterInputs
    /\ eligible = <<>>
    /\ verdict = NoVerdict
    /\ returned = {}
    /\ ScoreIdle
    /\ DivIdle

FilterEligibleCall ==
    /\ eligible' = filterEligible(eligibilityFilter, candidates, userContext)
    /\ returned' = returned \cup {"filterEligible"}
    /\ UNCHANGED <<candidates, verdict, engineVars, now, argVars, scoreVars, divVars, pipeVars>>

IsEligibleCall ==
    /\ \E i \in 1..Len(candidates) :
          verdict' = [game   |-> candidates[i],
                      result |-> isEligible(eligibilityFilter, candidates[i], userContext)]
    /\ returned' = returned \cup {"isEligible"}
    /\ UNCHANGED <<candidates, eligible, engineVars, now, argVars, scoreVars, divVars, pipeVars>>

NextFilter == FilterEligibleCall \/ IsEligibleCall

SpecFilter == InitFilter /\ [][NextFilter]_vars

(***************************************************************************)
(* SpecScore: a ScoringEngine, a list of eligible games, a user and a      *)
(* history; scoreGames is called while the clock runs.                     *)
(***************************************************************************)
InitScore ==
    /\ \E cfg \in ScoreConfigs : EngineOf(cfg, TRUE)
    /\ PipeIdle
    /\ now = 0
    /\ userContext = User("AGE_9_TO_12", (1 :> 1) @@ (2 :> 1))
    /\ userHistory \in {EmptyHistory, RichHistory}
    /\ eligible \in SeqsUpTo(ScoreGames, MaxScoreLen)
    /\ candidates = <<>>
    /\ verdict = NoVerdict
    /\ returned = {}
    /\ ScoreIdle
    /\ DivIdle

Tick ==
    /\ now < MaxNow
    /\ now' = now + 1
    /\ UNCHANGED <<engineVars, argVars, filterVars, scoreVars, divVars, pipeVars>>

ScoreGamesCall ==
    /\ calls < MaxCalls
    /\ scored' = scoreGames(scoringEngine, now, eligible, userContext, userHistory)
    /\ prevScored' = scored
    /\ calls' = calls + 1
    /\ UNCHANGED <<engineVars, now, argVars, filterVars, divVars, pipeVars>>

NextScore == Tick \/ ScoreGamesCall

SpecScore == InitScore /\ [][NextScore]_vars

(***************************************************************************)
(* SpecDiversify: a DiversityPass and a list; diversify(sortedGames), one  *)
(* iteration of its for loop at a time.  divIdx counts the input items the *)
(* loop has examined.                                                      *)
(***************************************************************************)
InitDiversify ==
    /\ \E cfg \in DivConfigs : EngineOf(cfg, TRUE)
    /\ PipeIdle
    /\ now = 0
    /\ userContext = User("AGE_9_TO_12", EmptyVector)
    /\ userHistory = EmptyHistory
    /\ FilterIdle
    /\ ScoreIdle
    /\ sortedGames \in DivInputs
    /\ divIdx = 0
    /\ diversified = <<>>
    /\ genreCounts = EmptyVector
    /\ divPc = "idle"
    /\ warnings = {}

DiversifyCall ==
    /\ divPc = "idle"
    /\ divPc' = "loop"
    /\ diversified' = divLoopInit.diversified
    /\ genreCounts' = divLoopInit.genreCounts
    /\ divIdx' = 0
    /\ UNCHANGED <<sortedGames, warnings, engineVars, now, argVars, filterVars, scoreVars, pipeVars>>

DiversifyIterate ==
    /\ divPc = "loop"
    /\ divIdx < Len(sortedGames)
    /\ LET st == divLoopBody(diversityPass,
                             [diversified |-> diversified, genreCounts |-> genreCounts,
                              stopped |-> FALSE],
                             sortedGames[divIdx + 1])
       IN /\ divIdx' = divIdx + 1
          /\ diversified' = st.diversified
          /\ genreCounts' = st.genreCounts
          /\ IF st.stopped
             THEN /\ divPc' = "done"
                  /\ warnings' = ensureMinimumRequirements(diversityPass, st.diversified)
             ELSE UNCHANGED <<divPc, warnings>>
    /\ UNCHANGED <<sortedGames, engineVars, now, argVars, filterVars, scoreVars, pipeVars>>

DiversifyReturn ==
    /\ divPc = "loop"
    /\ divIdx >= Len(sortedGames)
    /\ divPc' = "done"
    /\ warnings' = ensureMinimumRequirements(diversityPass, diversified)
    /\ UNCHANGED <<sortedGames, divIdx, diversified, genreCounts,
                   engineVars, now, argVars, filterVars, scoreVars, pipeVars>>

NextDiversify == DiversifyCall \/ DiversifyIterate \/ DiversifyReturn

SpecDiversify == InitDiversify /\ [][NextDiversify]_vars

(***************************************************************************)
(* Spec: a RecommendationEngine and one generateRecommendations call, one  *)
(* await at a time.  pc names the data-source call the call is suspended   *)
(* at; each response resumes it up to its next await.  updateConfig may    *)
(* run at any await.                                                       *)
(***************************************************************************)
Init ==
    /\ \E cfg \in PipeConfigs, enabled \in BOOLEAN : EngineOf(cfg, enabled)
    /\ now = 0
    /\ userContext \in {User(a, (1 :> 1)) : a \in {"UNDER_9", "AGE_13_PLUS"}}
    /\ userHistory = RichHistory
    /\ FilterIdle
    /\ ScoreIdle
    /\ DivIdle
    /\ PipeIdle

\* The variables no step of generateRecommendations writes.
callUntouched ==
    <<verdict, returned, prevScored, calls, sortedGames, divIdx, genreCounts, divPc,
      now, userContext, userHistory, engineVars, mergedBuckets, chartVars, sourceDb>>

\* The variables no step after the call itself writes.
pipeUntouched == <<callUntouched, configsSeen>>

\* The locals written by stages 2 to 5, and the config values they read.
stageVars ==
    <<candidates, eligible, scored, diversified, warnings, sponsoredGames, withSponsored,
      usedConfig>>

\* The config values the components hold: what filterEligible, scoreGames,
\* diversify and injectSponsored read when they run.
componentConfig ==
    [moderationThreshold |-> eligibilityFilter.moderationThreshold,
     scoringEngine       |-> scoringEngine,
     diversityPass       |-> diversityPass,
     maxSponsoredPerList |-> sponsoredInjector]

\* The locals written after stage 5.
tailVars == <<popularGames, trendingGames, chartCandidates, chartList, buckets>>

GenerateRecommendationsCall ==
    /\ pc = "idle"
    /\ pc' = "getTopGamesByGenres"
    /\ candidateSet' = <<>>
    /\ issued' = <<"getTopGamesByGenres">>
    /\ configsSeen' = {config}
    /\ UNCHANGED <<rejected, stageVars, tailVars, callUntouched>>

\* generateCandidates returns Array.from(candidateSet.values()); stages 2 to
\* 5 of generateRecommendations follow without an await, up to the await of
\* getPopularGames.
Stages2to5(cands) ==
    LET el == filterEligible(eligibilityFilter, cands, userContext)
        sc == scoreGames(scoringEngine, now, el, userContext, userHistory)
        dv == diversify(diversityPass, sc)
        sp == sponsoredOf(sc)
    IN /\ candidates' = cands
       /\ eligible' = el
       /\ scored' = sc
       /\ diversified' = dv
       /\ warnings' = ensureMinimumRequirements(diversityPass, dv)
       /\ sponsoredGames' = sp
       /\ withSponsored' = injectSponsored(sponsoredInjector, dv, sp)
       /\ usedConfig' = componentConfig
       /\ pc' = "getPopularGames"
       /\ issued' = Append(issued, "getPopularGames")

\* A response of one of the first three candidate sources.
CandidateResponse(at, next, games) ==
    /\ pc = at
    /\ candidateSet' = addToCandidateSet(candidateSet, games)
    /\ pc' = next
    /\ issued' = Append(issued, next)
    /\ UNCHANGED <<rejected, stageVars, tailVars, pipeUntouched>>

RespTopGamesByGenres ==
    \E games \in Responses :
        CandidateResponse("getTopGamesByGenres", "getPopularGamesByAgeBand", games)

RespPopularGamesByAgeBand ==
    \E games \in Responses :
        CandidateResponse("getPopularGamesByAgeBand", "getTrendingGames", games)

RespTrendingGames ==
    \E games \in Responses :
        CandidateResponse("getTrendingGames", "getEditorialPicks", games)

RespEditorialPicks ==
    \E games \in Responses :
        /\ pc = "getEditorialPicks"
        /\ candidateSet' = addToCandidateSet(candidateSet, games)
        /\ IF sponsoredEnabled
           THEN /\ pc' = "getSponsoredGames"
                /\ issued' = Append(issued, "getSponsoredGames")
                /\ UNCHANGED stageVars
           ELSE Stages2to5(addToCandidateSet(candidateSet, games))
        /\ UNCHANGED <<rejected, tailVars, pipeUntouched>>

RespSponsoredGames ==
    \E games \in Responses :
        /\ pc = "getSponsoredGames"
        /\ candidateSet' = addToCandidateSet(candidateSet, games)
        /\ Stages2to5(addToCandidateSet(candidateSet, games))
        /\ UNCHANGED <<rejected, tailVars, pipeUntouched>>

\* getPopularGames resumes, returns, and getTrendingGames calls
\* generateTopTrending, which awaits fetchGamesByAgeAndPlatform.
RespPopularGames ==
    \E games \in Responses :
        /\ pc = "getPopularGames"
        /\ popularGames' = zeroScoredEligible(eligibilityFilter, games, userContext)
        /\ pc' = "fetchGamesByAgeAndPlatform"
        /\ issued' = Append(issued, "fetchGamesByAgeAndPlatform")
        /\ UNCHANGED <<rejected, candidateSet, stageVars, trendingGames, chartCandidates,
                       chartList, buckets, pipeUntouched>>

\* generateTopTrending has its last metrics: it sorts, slices and ranks;
\* getTrendingGames drops the entries and returns []; stage 6 builds the
\* buckets and the call returns them.
ReturnBuckets ==
    /\ trendingGames' = <<>>
    /\ buckets' = organizeBuckets(withSponsored, popularGames, <<>>, sponsoredGames)
    /\ chartCandidates' = <<>>
    /\ chartList' = <<>>
    /\ pc' = "done"
    /\ UNCHANGED issued

RespChartCandidates ==
    \E games \in ChartResponses :
        /\ pc = "fetchGamesByAgeAndPlatform"
        /\ IF games = <<>>
           THEN ReturnBuckets
           ELSE /\ chartCandidates' = games
                /\ chartList' = <<>>
                /\ pc' = "getGameMetrics"
                /\ issued' = Append(issued, "getGameMetrics")
                /\ UNCHANGED <<trendingGames, buckets>>
        /\ UNCHANGED <<rejected, candidateSet, stageVars, popularGames, pipeUntouched>>

RespGameMetrics ==
    \E metrics \in MetricsResponses :
        /\ pc = "getGameMetrics"
        /\ LET game  == chartCandidates[Len(chartList) + 1]
               entry == [gameId |-> game.gameId, score |-> trendingScore(metrics), rank |-> 0]
           IN IF Len(chartList) + 1 = Len(chartCandidates)
              THEN ReturnBuckets
              ELSE /\ chartList' = Append(chartList, entry)
                   /\ issued' = Append(issued, "getGameMetrics")
                   /\ UNCHANGED <<trendingGames, buckets, chartCandidates, pc>>
        /\ UNCHANGED <<rejected, candidateSet, stageVars, popularGames, pipeUntouched>>

Awaiting ==
    pc \in {"getTopGamesByGenres", "getPopularGamesByAgeBand", "getTrendingGames",
            "getEditorialPicks", "getSponsoredGames", "getPopularGames",
            "fetchGamesByAgeAndPlatform", "getGameMetrics"}

SourceFailsSwallowed ==
    /\ Awaiting
    /\ rejected' = pc
    /\ pc' = "done"
    /\ buckets' = organizeBuckets(withSponsored, popularGames, <<>>, sponsoredGames)
    /\ UNCHANGED <<issued, candidateSet, stageVars, popularGames, trendingGames,
                   chartCandidates, chartList, pipeUntouched>>

\* The awaited data-source call rejects: no try/catch on the way, so the
\* generateRecommendations call rejects, and its locals are gone.
SourceFails ==
    /\ Awaiting
    /\ rejected' = pc
    /\ pc' = "failed"
    /\ candidateSet' = <<>>
    /\ candidates' = <<>>
    /\ eligible' = <<>>
    /\ scored' = <<>>
    /\ diversified' = <<>>
    /\ sponsoredGames' = <<>>
    /\ withSponsored' = <<>>
    /\ popularGames' = <<>>
    /\ chartCandidates' = <<>>
    /\ chartList' = <<>>
    /\ UNCHANGED <<issued, warnings, usedConfig, trendingGames, buckets, pipeUntouched>>

UpdateConfig ==
    \E newConfig \in ConfigUpdates :
        /\ config' = mergeConfig(config, newConfig)
        /\ scoringEngine' = mergeConfig(config, newConfig)
        /\ diversityPass' = mergeConfig(config, newConfig)
        /\ configsSeen' = IF Awaiting THEN configsSeen \cup {mergeConfig(config, newConfig)}
                                      ELSE configsSeen
        /\ UNCHANGED <<sponsoredEnabled, eligibilityFilter, sponsoredInjector, now, argVars,
                       filterVars, scoreVars, divVars, pc, candidateSet, sponsoredGames,
                       withSponsored, popularGames, trendingGames, chartCandidates, chartList,
                       buckets, mergedBuckets, callVars, chartVars, usedConfig,
                       sourceDb>>

Next ==
    \/ GenerateRecommendationsCall
    \/ RespTopGamesByGenres
    \/ RespPopularGamesByAgeBand
    \/ RespTrendingGames
    \/ RespEditorialPicks
    \/ RespSponsoredGames
    \/ RespPopularGames
    \/ RespChartCandidates
    \/ RespGameMetrics
    \/ SourceFails
    \/ UpdateConfig

Spec == Init /\ [][Next]_vars

(***************************************************************************)
(* SpecBuckets: a SponsoredInjector and a BucketOrganizer; the calls       *)
(* injectSponsored(diversified, sponsoredGames), organizeBuckets on its    *)
(* result and mergeBuckets on the buckets.                                 *)
(***************************************************************************)
InitBuckets ==
    /\ \E cap \in SponsoredCaps :
          EngineOf([DEFAULT_CONFIG EXCEPT !.maxSponsoredPerList = cap], TRUE)
    /\ now = 0
    /\ userContext = User("AGE_9_TO_12", EmptyVector)
    /\ userHistory = EmptyHistory
    /\ FilterIdle
    /\ ScoreIdle
    /\ sortedGames = <<>>
    /\ divIdx = 0
    /\ diversified \in DiversifiedInputs
    /\ genreCounts = EmptyVector
    /\ divPc = "idle"
    /\ warnings = {}
    /\ pc = "idle"
    /\ candidateSet = <<>>
    /\ sponsoredGames \in SponsoredInputs
    /\ withSponsored = <<>>
    /\ popularGames \in SideInputs
    /\ trendingGames \in SideInputs
    /\ chartCandidates = <<>>
    /\ chartList = <<>>
    /\ buckets = <<>>
    /\ mergedBuckets = <<>>
    /\ issued = <<>>
    /\ rejected = "none"
    /\ ChartIdle
    /\ configsSeen = {}
    /\ usedConfig = <<>>
    /\ sourceDb = <<>>

\* The variables no call of SpecBuckets writes.
bucketsUntouched ==
    <<engineVars, now, argVars, candidates, eligible, verdict, scoreVars, divVars, pc,
      candidateSet, sponsoredGames, popularGames, trendingGames, chartCandidates, chartList,
      callVars, chartVars, configsSeen, usedConfig, sourceDb>>

InjectSponsoredCall ==
    /\ "injectSponsored" \notin returned
    /\ withSponsored' = injectSponsored(sponsoredInjector, diversified, sponsoredGames)
    /\ returned' = returned \cup {"injectSponsored"}
    /\ UNCHANGED <<buckets, mergedBuckets, bucketsUntouched>>

OrganizeBucketsCall ==
    /\ "injectSponsored" \in returned
    /\ "organizeBuckets" \notin returned
    /\ buckets' = organizeBuckets(withSponsored, popularGames, trendingGames, sponsoredGames)
    /\ returned' = returned \cup {"organizeBuckets"}
    /\ UNCHANGED <<withSponsored, mergedBuckets, bucketsUntouched>>

MergeBucketsCall ==
    /\ "organizeBuckets" \in returned
    /\ "mergeBuckets" \notin returned
    /\ mergedBuckets' = mergeBuckets(buckets)
    /\ returned' = returned \cup {"mergeBuckets"}
    /\ UNCHANGED <<withSponsored, buckets, bucketsUntouched>>

NextBuckets == InjectSponsoredCall \/ OrganizeBucketsCall \/ MergeBucketsCall

SpecBuckets == InitBuckets /\ [][NextBuckets]_vars

(***************************************************************************)
(* SpecCandidates: a CandidateGenerator over a candidate data source with  *)
(* fixed answers; one call generateCandidates(userContext).                *)
(***************************************************************************)
InitCandidates ==
    /\ \E enabled \in BOOLEAN : EngineOf(DEFAULT_CONFIG, enabled)
    /\ now = 0
    /\ userContext = User("AGE_9_TO_12", EmptyVector)
    /\ userHistory = EmptyHistory
    /\ FilterIdle
    /\ ScoreIdle
    /\ DivIdle
    /\ pc = "idle"
    /\ candidateSet = <<>>
    /\ sponsoredGames = <<>>
    /\ withSponsored = <<>>
    /\ popularGames = <<>>
    /\ trendingGames = <<>>
    /\ chartCandidates = <<>>
    /\ chartList = <<>>
    /\ buckets = <<>>
    /\ mergedBuckets = <<>>
    /\ issued = <<>>
    /\ rejected = "none"
    /\ ChartIdle
    /\ configsSeen = {}
    /\ usedConfig = <<>>
    /\ \E genreGames, popular \in SourceAnswers, trending, editorial, sponsored \in ShortAnswers :
          sourceDb = [name \in Range(SourceOrder) |->
                         CASE name = "getTopGamesByGenres" -> genreGames
                           [] name = "getPopularGamesByAgeBand" -> popular
                           [] name = "getTrendingGames" -> trending
                           [] name = "getEditorialPicks" -> editorial
                           [] name = "getSponsoredGames" -> sponsored]

\* The variables no step of generateCandidates writes.
candidatesUntouched ==
    <<engineVars, now, argVars, eligible, verdict, returned, scoreVars, divVars,
      sponsoredGames, withSponsored, popularGames, trendingGames, chartCandidates, chartList,
      buckets, mergedBuckets, chartVars, configsSeen, usedConfig, sourceDb>>

\* generateCandidates up to its first await.
GenerateCandidatesCall ==
    /\ pc = "idle"
    /\ candidateSet' = <<>>
    /\ pc' = SourceOrder[1]
    /\ issued' = <<SourceOrder[1]>>
    /\ UNCHANGED <<candidates, rejected, candidatesUntouched>>

\* The awaited source call answers: its games are added to candidateSet, and
\* generateCandidates goes on to its next await, or returns
\* Array.from(candidateSet.values()).
SourceResponse ==
    \E k \in 1..Len(SourceOrder) :
        /\ pc = SourceOrder[k]
        /\ candidateSet' = addToCandidateSet(candidateSet, sourceDb[pc])
        /\ IF k <= 3 \/ (k = 4 /\ sponsoredEnabled)
           THEN /\ pc' = SourceOrder[k + 1]
                /\ issued' = Append(issued, SourceOrder[k + 1])
                /\ UNCHANGED candidates
           ELSE /\ pc' = "done"
                /\ candidates' = addToCandidateSet(candidateSet, sourceDb[pc])
                /\ UNCHANGED issued
        /\ UNCHANGED <<rejected, candidatesUntouched>>

\* The awaited source call rejects, and generateCandidates with it.
SourceRejects ==
    /\ pc \in Range(SourceOrder)
    /\ rejected' = pc
    /\ pc' = "failed"
    /\ UNCHANGED <<issued, candidateSet, candidates, candidatesUntouched>>

NextCandidates == GenerateCandidatesCall \/ SourceResponse \/ SourceRejects

SpecCandidates == InitCandidates /\ [][NextCandidates]_vars

(***************************************************************************)
(* SpecChart: a RecommendationEngine over a chart data source with fixed   *)
(* metrics; one call generateChart(chartType, ageBand, platform, limit,    *)
(* genreId).                                                               *)
(***************************************************************************)
ChartEngineOver(db) ==
    /\ EngineOf(DEFAULT_CONFIG, TRUE)
    /\ now = 0
    /\ userContext = User("AGE_9_TO_12", EmptyVector)
    /\ userHistory = EmptyHistory
    /\ FilterIdle
    /\ ScoreIdle
    /\ DivIdle
    /\ pc = "idle"
    /\ candidateSet = <<>>
    /\ sponsoredGames = <<>>
    /\ withSponsored = <<>>
    /\ popularGames = <<>>
    /\ trendingGames = <<>>
    /\ chartCandidates = <<>>
    /\ chartList = <<>>
    /\ buckets = <<>>
    /\ mergedBuckets = <<>>
    /\ issued = <<>>
    /\ rejected = "none"
    /\ chartPc = "idle"
    /\ chartType = "none"
    /\ chartLimit = 0
    /\ chartGenre = <<>>
    /\ chartAll = <<>>
    /\ chartIdx = 0
    /\ chart = <<>>
    /\ metricsDb = db
    /\ configsSeen = {}
    /\ usedConfig = <<>>
    /\ sourceDb = <<>>

InitChart == \E db \in [{g.gameId : g \in ChartPool} -> GameMetrics] : ChartEngineOver(db)

\* The variables no step of generateChart writes.
chartUntouched ==
    <<engineVars, now, argVars, filterVars, scoreVars, divVars, pc, candidateSet,
      sponsoredGames, withSponsored, popularGames, trendingGames, buckets, mergedBuckets,
      metricsDb, configsSeen, usedConfig, sourceDb>>

\* generateChart up to its first await, or to its throw.
GenerateChartCall ==
    \E kind \in ChartTypeArgs, limit \in ChartLimits, genre \in ChartGenres :
        /\ chartPc = "idle"
        /\ chartType' = kind
        /\ chartLimit' = limit
        /\ chartGenre' = genre
        /\ IF kind \notin ChartType \/ (kind = "TRENDING_IN_GENRE" /\ genreIdMissing(genre))
           THEN chartPc' = "failed" /\ UNCHANGED issued
           ELSE /\ chartPc' = "fetchGamesByAgeAndPlatform"
                /\ issued' = <<"fetchGamesByAgeAndPlatform">>
        /\ UNCHANGED <<rejected, chartAll, chartCandidates, chartList, chartIdx, chart,
                       chartUntouched>>

\* The for loop of a generator from candidate idx on, with chartList at
\* `list`: up to the next await of getGameMetrics, or to the sort, the slice,
\* the ranks and the return.
ChartLoopFrom(list, idx, entries) ==
    LET next == nextFetch(chartType, now, list, idx)
    IN /\ chartIdx' = next
       /\ IF next > Len(list)
          THEN /\ chart' = rankChart(entries, chartLimit)
               /\ chartPc' = "done"
               /\ UNCHANGED issued
          ELSE /\ chartPc' = "getGameMetrics"
               /\ issued' = Append(issued, "getGameMetrics")
               /\ UNCHANGED chart

ChartCandidatesResponse ==
    \E games \in SeqsUpTo(ChartPool, MaxChart) :
        /\ chartPc = "fetchGamesByAgeAndPlatform"
        /\ chartAll' = games
        /\ chartCandidates' = chartCandidatesOf(chartType, chartGenre, games)
        /\ chartList' = <<>>
        /\ ChartLoopFrom(chartCandidatesOf(chartType, chartGenre, games), 1, <<>>)
        /\ UNCHANGED <<rejected, chartType, chartLimit, chartGenre, chartUntouched>>

ChartMetricsResponse ==
    /\ chartPc = "getGameMetrics"
    /\ LET game    == chartCandidates[chartIdx]
           metrics == metricsDb[game.gameId]
           entries == IF skipsAfterFetch(chartType, metrics) THEN chartList
                      ELSE Append(chartList,
                                  [gameId |-> game.gameId,
                                   score  |-> chartScore(chartType, now, game, metrics),
                                   rank   |-> 0])
       IN /\ chartList' = entries
          /\ ChartLoopFrom(chartCandidates, chartIdx + 1, entries)
    /\ UNCHANGED <<rejected, chartType, chartLimit, chartGenre, chartAll, chartCandidates,
                   chartUntouched>>

\* The awaited call of the chart data source rejects: generateChart rejects.
ChartSourceFails ==
    /\ chartPc \in {"fetchGamesByAgeAndPlatform", "getGameMetrics"}
    /\ rejected' = chartPc
    /\ chartPc' = "failed"
    /\ UNCHANGED <<issued, chartType, chartLimit, chartGenre, chartAll, chartCandidates,
                   chartList, chartIdx, chart, chartUntouched>>

NextChart ==
    \/ GenerateChartCall
    \/ ChartCandidatesResponse
    \/ ChartMetricsResponse
    \/ ChartSourceFails

SpecChart == InitChart /\ [][NextChart]_vars

(***************************************************************************)
(* SpecTrending: generateChart over a chart data source whose plays of the *)
(* last 7 days and of the 7 days before, for g1, range over TrendPlays.    *)
(***************************************************************************)
InitTrending ==
    \E m \in TrendMetrics :
        ChartEngineOver([id \in {g.gameId : g \in ChartPool} |->
                            IF id = "g1" THEN m
                            ELSE CHOOSE other \in GameMetrics : other.playsPrev7Days # 0])

SpecTrending == InitTrending /\ [][NextChart]_vars

(***************************************************************************)
(* Claims about the eligibility filter (SpecFilter).                       *)
(***************************************************************************)
\* The ordinal position of an age band in UNDER_9 < AGE_9_TO_12 < AGE_13_PLUS.
AgeBandSeq == <<"UNDER_9", "AGE_9_TO_12", "AGE_13_PLUS">>

Ordinal(a) == CHOOSE i \in 1..Len(AgeBandSeq) : AgeBandSeq[i] = a

TooOld(game) == Ordinal(game.minAgeBand) > Ordinal(userContext.ageBand)

Filtered == "filterEligible" \in returned

Judged == "isEligible" \in returned

\* C2.  Age gate: an item whose minimum age band is above the user's age
\* band is not in the list filterEligible returns, and isEligible answers
\* false for it.
C2_AgeGate ==
    /\ Filtered =>
          \A i \in 1..Len(candidates) :
              TooOld(candidates[i]) => candidates[i] \notin Range(eligible)
    /\ Judged => (TooOld(verdict.game) => verdict.result = FALSE)

\* A filtered list and an isEligible verdict on an item that only the age
\* gate rejects.
C2_Witness ==
    /\ Filtered
    /\ Judged
    /\ TooOld(verdict.game)
    /\ verdict.game.moderationScore >= eligibilityFilter.moderationThreshold
    /\ "VOICE_CHAT" \notin verdict.game.features
    /\ Len(eligible) > 0

\* C3.  Feature gate: for a user who is not AGE_13_PLUS no item declaring
\* VOICE_CHAT is in the list filterEligible returns, whatever its minimum
\* age band and moderation score.
C3_FeatureGate ==
    (Filtered /\ userContext.ageBand # "AGE_13_PLUS") =>
        \A i \in 1..Len(candidates) :
            "VOICE_CHAT" \in candidates[i].features => candidates[i] \notin Range(eligible)

\* A user under 13, and a voice-chat item that the other two gates pass.
C3_Witness ==
    /\ Filtered
    /\ userContext.ageBand = "AGE_9_TO_12"
    /\ \E i \in 1..Len(candidates) :
          /\ "VOICE_CHAT" \in candidates[i].features
          /\ ~TooOld(candidates[i])
          /\ candidates[i].moderationScore > eligibilityFilter.moderationThreshold
    /\ Len(eligible) > 0

\* C4.  Moderation gate: an item whose moderation score is below the
\* threshold is excluded; an item whose score equals the threshold is
\* excluded only if the age gate or the feature gate excludes it.
C4_ModerationGate ==
    Filtered =>
        \A i \in 1..Len(candidates) :
            LET game == candidates[i]
            IN /\ game.moderationScore < eligibilityFilter.moderationThreshold
                    => game \notin Range(eligible)
               /\ (/\ game.moderationScore = eligibilityFilter.moderationThreshold
                   /\ ~TooOld(game)
                   /\ (userContext.ageBand = "AGE_13_PLUS" \/ "VOICE_CHAT" \notin game.features))
                    => game \in Range(eligible)

\* Threshold 0.8: an item at 0.75 is left out and an item at 0.8 is kept.
C4_Witness ==
    /\ Filtered
    /\ eligibilityFilter.moderationThreshold = 80
    /\ \E i, j \in 1..Len(candidates) :
          /\ candidates[i].moderationScore = 75
          /\ ~TooOld(candidates[i])
          /\ candidates[i].features = {}
          /\ candidates[i] \notin Range(eligible)
          /\ candidates[j].moderationScore = 80
          /\ candidates[j] \in Range(eligible)

(***************************************************************************)
(* Claims about the scoring engine (SpecScore).                            *)
(***************************************************************************)
Scored == calls > 0

PositiveSignals ==
    {"genreAffinity", "ageBandPopularity", "engagementSimilarity", "favouriteAffinity",
     "communityRating", "recencyBoost", "sponsoredBoost"}

PenaltySignals == {"repetitionPenalty", "creationRecencyPenalty"}

Weighted(weights, breakdown, names) ==
    SumOver([n \in names |-> weights[n] * breakdown[n]], names)

\* C5.  The list scoreGames returns is non-increasing by score, and two
\* items with equal scores appear in ascending order of identifier.
C5_SortedWithIdTieBreak ==
    Scored =>
        \A i, j \in 1..Len(scored) :
            i < j =>
                /\ scored[i].score >= scored[j].score
                /\ scored[i].score = scored[j].score
                     => GameIdOrd(scored[i].game.gameId) <= GameIdOrd(scored[j].game.gameId)

\* C6.  Two calls of scoreGames with the same items, user, history and
\* config return the same list, whenever they are made.
C6_SameArgumentsSameResult == calls >= 2 => scored = prevScored

C8_SponsoredBoost ==
    Scored =>
        \A i \in 1..Len(scored) :
            LET game  == scored[i].game
                boost == scored[i].breakdown.sponsoredBoost
                mult  == scoringEngine.sponsoredAmountMultiplier
                cap   == scoringEngine.maxSponsoredBoost
            IN /\ (~game.isSponsored \/ game.sponsoredAmount <= 0) => boost = 0
               /\ (game.isSponsored /\ game.sponsoredAmount > 0) =>
                      /\ game.sponsoredAmount * mult <= cap => boost = game.sponsoredAmount * mult
                      /\ game.sponsoredAmount * mult >= cap => boost = cap
               /\ (mult >= 0 /\ cap >= 0) => (0 <= boost /\ boost <= cap)
               /\ (/\ game.isSponsored
                   /\ game.sponsoredAmount = 2500
                   /\ mult = 1
                   /\ cap = 2000) => boost = 2000

\* Amount 2500 under the default multiplier and cap: the boost is the cap.
C8_Witness ==
    /\ Scored
    /\ scoringEngine.sponsoredAmountMultiplier = 1
    /\ scoringEngine.maxSponsoredBoost = 2000
    /\ \E i \in 1..Len(scored) :
          /\ scored[i].game.isSponsored
          /\ scored[i].game.sponsoredAmount = 2500
          /\ scored[i].breakdown.sponsoredBoost = 2000

(***************************************************************************)
(* Claims about the diversity pass (SpecDiversify).                        *)
(***************************************************************************)
Genres == UNION {DOMAIN sortedGames[i].game.genreVector : i \in 1..Len(sortedGames)}

\* The number of items of `list` whose genre vector contains genre g.
NumWithGenre(list, g) ==
    Cardinality({i \in 1..Len(list) : g \in DOMAIN list[i].game.genreVector})

\* C9.  After every admission step of diversify, and so in its output, no
\* genre is held by more than maxPerGenre of the admitted items, items of
\* several genres included.
C9_MaxPerGenre ==
    divPc # "idle" =>
        \A g \in Genres :
            NumWithGenre(diversified, g) <= diversityPass.diversityRules.maxPerGenre

\* A finished pass that admitted a two-genre item, filled a genre to the
\* cap and rejected an item for it.
C9_Witness ==
    /\ divPc = "done"
    /\ \E g \in Genres :
          /\ NumWithGenre(diversified, g) = diversityPass.diversityRules.maxPerGenre
          /\ NumWithGenre(sortedGames, g) > diversityPass.diversityRules.maxPerGenre
    /\ \E i \in 1..Len(diversified) :
          Cardinality(DOMAIN diversified[i].game.genreVector) = 2
    /\ Len(diversified) < diversityPass.maxResults

\* C10.  diversify admits at most maxResults items, and once maxResults
\* items are admitted the pass is over: the item it examined last is the
\* one it admitted last.
C10_MaxResults ==
    divPc # "idle" =>
        /\ Len(diversified) <= diversityPass.maxResults
        /\ Len(diversified) >= diversityPass.maxResults =>
              /\ divPc = "done"
              /\ divIdx > 0
              /\ sortedGames[divIdx] = diversified[Len(diversified)]

\* A pass that stopped at maxResults with input items left unexamined.
C10_Witness ==
    /\ divPc = "done"
    /\ Len(diversified) = diversityPass.maxResults
    /\ divIdx < Len(sortedGames)
    /\ diversityPass.maxResults > 1

\* Every item of the input declares genre g and no other genre.
SingleGenre(g) ==
    /\ Len(sortedGames) > 0
    /\ \A i \in 1..Len(sortedGames) : DOMAIN sortedGames[i].game.genreVector = {g}

IsMultiplayer(scoredGame) == "MULTIPLAYER" \in scoredGame.game.features

\* The first min(maxPerGenre, maxResults, n) items of the input.
CappedPrefix ==
    SubSeq(sortedGames, 1,
           Min(Min(diversityPass.diversityRules.maxPerGenre, diversityPass.maxResults),
               Len(sortedGames)))

\* C11, as stated.  When every item of the input declares the same single
\* genre, diversify returns the first min(maxPerGenre, maxResults, n) items
\* of the input, in input order.
C11_SingleGenrePrefix ==
    (divPc = "done" /\ \E g \in Genres : SingleGenre(g)) => diversified = CappedPrefix

\* C11, amended.  The same, when the multiplayer rule is off or the first
\* two items of the input are not both MULTIPLAYER.
C11_SingleGenrePrefixUnlessMultiplayer ==
    (/\ divPc = "done"
     /\ \E g \in Genres : SingleGenre(g)
     /\ \/ ~diversityPass.diversityRules.avoidAllMultiplayer
        \/ Len(sortedGames) < 2
        \/ ~(IsMultiplayer(sortedGames[1]) /\ IsMultiplayer(sortedGames[2])))
        => diversified = CappedPrefix

\* Three items of genre 1 under maxPerGenre 2 and the multiplayer rule, the
\* first multiplayer and the second not: the first two are returned.
C11_Witness ==
    /\ divPc = "done"
    /\ SingleGenre(1)
    /\ Len(sortedGames) = 3
    /\ diversityPass.diversityRules.maxPerGenre = 2
    /\ diversityPass.maxResults = 3
    /\ diversityPass.diversityRules.avoidAllMultiplayer
    /\ IsMultiplayer(sortedGames[1])
    /\ ~IsMultiplayer(sortedGames[2])
    /\ diversified = SubSeq(sortedGames, 1, 2)

\* The greedy pass on the first n items of the input, as the set of the
\* input positions it admits: an item is admitted unless one of its genres is
\* held by maxPerGenre admitted items, or it is MULTIPLAYER, as are all
\* admitted items (at least one), and the multiplayer rule is on; nothing is
\* admitted once maxResults items are.
RECURSIVE GreedyAdmits(_)
GreedyAdmits(n) ==
    IF n = 0 THEN {}
    ELSE LET before == GreedyAdmits(n - 1)
             item   == sortedGames[n]
             rules  == diversityPass.diversityRules
             full   == \E g \in DOMAIN item.game.genreVector :
                          Cardinality({i \in before : g \in DOMAIN sortedGames[i].game.genreVector})
                              >= rules.maxPerGenre
             allMp  == /\ rules.avoidAllMultiplayer
                       /\ IsMultiplayer(item)
                       /\ before # {}
                       /\ \A i \in before : IsMultiplayer(sortedGames[i])
         IN IF Cardinality(before) >= diversityPass.maxResults \/ full \/ allMp
            THEN before
            ELSE before \cup {n}

\* The items of the input at the positions of set S, in input order.
RECURSIVE ItemsAt(_, _)
ItemsAt(S, n) ==
    IF n = 0 THEN <<>>
    ELSE ItemsAt(S, n - 1) \o (IF n \in S THEN <<sortedGames[n]>> ELSE <<>>)

\* C12.  The list diversify returns is the list of the greedy pass, with
\* or without a shortfall, and a diagnostic is emitted exactly when the list
\* spans fewer than minGenres genres, or requireLowIntensity is set and the
\* list has no LOW_INTENSITY item.
C12_ShortfallIsInformational ==
    divPc = "done" =>
        /\ diversified = ItemsAt(GreedyAdmits(Len(sortedGames)), Len(sortedGames))
        /\ "genres" \in warnings <=>
               Cardinality({g \in Genres : NumWithGenre(diversified, g) > 0})
                   < diversityPass.diversityRules.minGenres
        /\ "lowIntensity" \in warnings <=>
               /\ diversityPass.diversityRules.requireLowIntensity
               /\ \A i \in 1..Len(diversified) :
                      "LOW_INTENSITY" \notin diversified[i].game.features

\* A returned list of one multiplayer item, short of both requirements,
\* with the two other items of the input rejected and none added.
C12_Witness ==
    /\ divPc = "done"
    /\ warnings = {"genres", "lowIntensity"}
    /\ Len(diversified) = 1
    /\ Len(sortedGames) = 3
    /\ diversityPass.maxResults = 3

(***************************************************************************)
(* Claims about sponsored injection and the buckets (SpecBuckets).         *)
(***************************************************************************)
\* No item of the sequence occurs at two positions.
NoRepeat(seq) == \A i, j \in 1..Len(seq) : seq[i] = seq[j] => i = j

Injected == "injectSponsored" \in returned

\* What C13 says of a call of injectSponsored that has returned.
NoDuplicateWithinCap ==
    /\ NoRepeat(gameIdsOf(withSponsored))
    /\ Len(withSponsored) - Len(diversified) <= sponsoredInjector

\* C13, as stated.  For every diversified list and every list of sponsored
\* candidates, the output of injectSponsored holds no identifier twice and
\* at most maxSponsoredPerList inserted candidates.
C13_NoDuplicateWithinCap == Injected => NoDuplicateWithinCap

\* C13, amended.  The same, for a diversified list and a list of sponsored
\* candidates that each hold no identifier twice.
C13_NoDuplicateWithinCapOfDistinct ==
    (/\ Injected
     /\ NoRepeat(gameIdsOf(diversified))
     /\ NoRepeat(gameIdsOf(sponsoredGames)))
        => NoDuplicateWithinCap

\* Two sponsored candidates, one of them in the diversified list already,
\* the other inserted.
C13_Witness ==
    /\ Injected
    /\ NoRepeat(gameIdsOf(diversified))
    /\ Len(diversified) = 2
    /\ gameIdsOf(sponsoredGames) = <<"g3", "g4">>
    /\ "g3" \in Range(gameIdsOf(diversified))
    /\ sponsoredInjector = 2
    /\ Len(withSponsored) = 3

Organized == "organizeBuckets" \in returned

BucketOrder ==
    <<"recommended_for_you", "popular_by_age", "new_and_trending", "sponsored_events">>

\* The source list of each bucket.
BucketSource ==
    [recommended_for_you |-> withSponsored, popular_by_age |-> popularGames,
     new_and_trending |-> trendingGames, sponsored_events |-> sponsoredGames]

\* The position of bucket identifier `id` in the fixed order.
BucketRank(id) == CHOOSE r \in 1..Len(BucketOrder) : BucketOrder[r] = id

\* C15.  organizeBuckets returns at most four buckets in the order
\* recommended_for_you, popular_by_age, new_and_trending, sponsored_events;
\* a bucket is there exactly when its source list is not empty, and its games
\* are the identifiers of its source list in the same order.
C15_BucketsInFixedOrder ==
    Organized =>
        /\ Len(buckets) <= 4
        /\ \A b \in 1..Len(buckets) : buckets[b].id \in Range(BucketOrder)
        /\ \A a, b \in 1..Len(buckets) :
               a < b => BucketRank(buckets[a].id) < BucketRank(buckets[b].id)
        /\ \A id \in Range(BucketOrder) :
               (\E b \in 1..Len(buckets) : buckets[b].id = id) <=> Len(BucketSource[id]) > 0
        /\ \A b \in 1..Len(buckets) :
               LET source == BucketSource[buckets[b].id]
               IN buckets[b].games = [i \in 1..Len(source) |-> source[i].game.gameId]

\* Recommended, trending and sponsored lists, no popular list: three
\* buckets, the recommended one with an inserted sponsored game.
C15_Witness ==
    /\ Organized
    /\ Len(buckets) = 3
    /\ popularGames = <<>>
    /\ buckets[1].games = <<"g1", "g3", "g2">>
    /\ buckets[3].id = "sponsored_events"

Merged == "mergeBuckets" \in returned

\* Position k of input bucket b holds the first occurrence of its identifier.
FirstSeen(b, k) ==
    /\ \A j \in 1..(k - 1) : buckets[b].games[j] # buckets[b].games[k]
    /\ \A a \in 1..(b - 1) : buckets[b].games[k] \notin Range(buckets[a].games)

\* The identifiers of input bucket b at their first occurrence, in order.
KeptGames(b) ==
    LET at   == [k \in 1..Len(buckets[b].games) |-> [k |-> k, id |-> buckets[b].games[k]]]
        kept == SelectSeq(at, LAMBDA e : FirstSeen(b, e.k))
    IN [i \in 1..Len(kept) |-> kept[i].id]

\* C16.  In the output of mergeBuckets every identifier occurs once, in the
\* first input bucket and at the first position where it occurred; the order
\* of the kept identifiers and of the buckets is that of the input, and a
\* bucket left without an identifier is omitted.
C16_MergeKeepsFirstOccurrence ==
    Merged =>
        LET each == [b \in 1..Len(buckets) |-> [buckets[b] EXCEPT !.games = KeptGames(b)]]
        IN /\ mergedBuckets = SelectSeq(each, LAMBDA bucket : bucket.games # <<>>)
           /\ \A a, b \in 1..Len(mergedBuckets) :
                  \A i \in 1..Len(mergedBuckets[a].games) :
                      \A j \in 1..Len(mergedBuckets[b].games) :
                          mergedBuckets[a].games[i] = mergedBuckets[b].games[j]
                              => (a = b /\ i = j)

\* Buckets that share identifiers: the sponsored bucket loses all of its
\* identifiers to the recommended bucket and is omitted.
C16_Witness ==
    /\ Merged
    /\ Len(buckets) = 3
    /\ buckets[3].id = "sponsored_events"
    /\ Len(mergedBuckets) = 2
    /\ \E b \in 1..Len(mergedBuckets) : Len(mergedBuckets[b].games) < Len(buckets[b].games)

(***************************************************************************)
(* Claims about the pipeline (Spec).                                       *)
(***************************************************************************)
\* The game of the catalogue with identifier id.
CatalogGame(id) == CHOOSE g \in Catalog : g.gameId = id

\* The three rules of the eligibility filter, for the user of the call and
\* the threshold the filter was constructed with.
PassesFilter(game) ==
    /\ ~TooOld(game)
    /\ game.moderationScore >= eligibilityFilter.moderationThreshold
    /\ (userContext.ageBand = "AGE_13_PLUS" \/ "VOICE_CHAT" \notin game.features)

\* C1.  Every game identifier in a bucket generateRecommendations returns
\* is that of a game that passes the eligibility filter for the user; no
\* later stage re-admits a rejected game, sponsored games included.
C1_OnlyEligibleInBuckets ==
    pc = "done" =>
        \A b \in 1..Len(buckets) :
            \A k \in 1..Len(buckets[b].games) :
                PassesFilter(CatalogGame(buckets[b].games[k]))

\* A returned call whose candidates held a game the filter rejects, with a
\* recommended and a popular bucket.
C1_Witness ==
    /\ pc = "done"
    /\ \E i \in 1..Len(candidates) : ~PassesFilter(candidates[i])
    /\ \E b \in 1..Len(buckets) : buckets[b].id = "recommended_for_you"
    /\ \E b \in 1..Len(buckets) : buckets[b].id = "popular_by_age"

\* The number of sponsored games in a list of scored games.
NumSponsored(list) == Cardinality({i \in 1..Len(list) : list[i].game.isSponsored})

\* C14.  The recommended list of the pipeline, diversify over the scored
\* games and then injectSponsored, holds at most maxSponsoredPerList
\* sponsored games.
C14_SponsoredHardCap ==
    pc \in {"getPopularGames", "fetchGamesByAgeAndPlatform", "getGameMetrics", "done"}
        => NumSponsored(withSponsored) <= sponsoredInjector

\* C20.  When a data-source call rejects, the call that issued it fails:
\* the rejected call is the last one issued, and no bucket list and no chart
\* is returned.
C20_SourceFailurePropagates ==
    rejected # "none" =>
        /\ pc = "failed" \/ chartPc = "failed"
        /\ pc # "done" /\ chartPc # "done"
        /\ issued # <<>> /\ issued[Len(issued)] = rejected
        /\ buckets = <<>>
        /\ trendingGames = <<>>
        /\ chart = <<>>

\* The second getGameMetrics call of generateTopTrending rejects, after
\* every candidate source and the first metrics call have answered.
C20_Witness ==
    /\ pc = "failed"
    /\ rejected = "getGameMetrics"
    /\ Len(issued) = 9
    /\ buckets = <<>>

(***************************************************************************)
(* Claims about generateChart (SpecChart).                                 *)
(***************************************************************************)
\* The filter of the chart type on a candidate: released at most 30 days
\* ago, in whole days, for UP_AND_COMING, played by someone for TOP_REPLAYED,
\* rated by someone for TOP_RATED, of the genre for TRENDING_IN_GENRE.
PassesKindFilter(game) ==
    LET metrics == metricsDb[game.gameId]
    IN CASE chartType = "UP_AND_COMING" -> (now - game.releaseDate) \div TicksPerDay <= 30
         [] chartType = "TOP_REPLAYED" -> metrics.uniquePlayers > 0
         [] chartType = "TOP_RATED" -> metrics.likes + metrics.dislikes > 0
         [] chartType = "TRENDING_IN_GENRE" -> chartGenre[1] \in DOMAIN game.genreVector
         [] OTHER -> TRUE

NumPassing == Cardinality({i \in 1..Len(chartAll) : PassesKindFilter(chartAll[i])})

\* C17.  The ranks of the entries a chart returns are 1, 2, ..., N in list
\* order, N the smaller of the limit and the number of candidates that pass
\* the filter of the chart type.
C17_RanksAreOneToN ==
    chartPc = "done" =>
        /\ Len(chart) = Min(chartLimit, NumPassing)
        /\ \A i \in 1..Len(chart) : chart[i].rank = i

\* A chart of a type with a filter, asked for with limit 2 over two
\* candidates of which one passes the filter: one entry.
C17_Witness ==
    /\ chartPc = "done"
    /\ chartType \in {"UP_AND_COMING", "TOP_RATED"}
    /\ Len(chartAll) = 2
    /\ NumPassing = 1
    /\ chartLimit = 2
    /\ Len(chart) = 1

\* C18.  The entries of a chart are sorted by score descending, and entries
\* with equal scores are in ascending order of identifier, in whatever order
\* the candidates were returned.
C18_ChartOrderWithIdTieBreak ==
    chartPc = "done" =>
        \A i, j \in 1..Len(chart) :
            i < j =>
                /\ chart[i].score >= chart[j].score
                /\ chart[i].score = chart[j].score
                     => GameIdOrd(chart[i].gameId) <= GameIdOrd(chart[j].gameId)

\* A call of generateChart that is a caller error: a chart type outside the
\* enum, or TRENDING_IN_GENRE without a genre id.
CallerError ==
    /\ chartPc # "idle"
    /\ \/ chartType \notin ChartType
       \/ chartType = "TRENDING_IN_GENRE" /\ chartGenre = <<>>

\* C19.  generateChart for TRENDING_IN_GENRE without a genre id, or for an
\* unknown chart type, fails without a call of the chart data source and
\* without a chart.
C19_CallerErrorBeforeAnyFetch ==
    CallerError =>
        /\ chartPc = "failed"
        /\ issued = <<>>
        /\ rejected = "none"
        /\ chart = <<>>

\* TRENDING_IN_GENRE was asked for without a genre id, and the call failed.
C19_Witness ==
    /\ chartPc = "failed"
    /\ chartType = "TRENDING_IN_GENRE"
    /\ chartGenre = <<>>
    /\ issued = <<>>

(***************************************************************************)
(* Claims about reconfiguration and candidate generation (Spec).           *)
(***************************************************************************)
\* C21.  The config values stages 2 to 5 of a generateRecommendations call
\* read (moderation threshold, scoring weights, diversity rules and
\* maxResults, maxSponsoredPerList) are those of one config, and getConfig()
\* returned that config at some moment of the call.
C21_OneConfigSnapshot ==
    usedConfig # <<>> =>
        \E c \in configsSeen :
            /\ usedConfig.moderationThreshold = c.moderationThreshold
            /\ usedConfig.scoringEngine.weights = c.weights
            /\ usedConfig.diversityPass.diversityRules = c.diversityRules
            /\ usedConfig.diversityPass.maxResults = c.maxResults
            /\ usedConfig.maxSponsoredPerList = c.maxSponsoredPerList

(***************************************************************************)
(* Claims about generateCandidates (SpecCandidates).                       *)
(***************************************************************************)
\* The sources generateCandidates reads, in the order it reads them.
SourcesRead ==
    IF sponsoredEnabled THEN SourceOrder ELSE SubSeq(SourceOrder, 1, 4)

RECURSIVE AnswersFrom(_)
\* The answers of the sources from the k-th on, one after the other.
AnswersFrom(k) ==
    IF k > Len(SourcesRead) THEN <<>>
    ELSE sourceDb[SourcesRead[k]] \o AnswersFrom(k + 1)

AllAnswers == AnswersFrom(1)

\* The position at which an identifier is first seen.
FirstSeenAt(id) ==
    CHOOSE i \in 1..Len(AllAnswers) :
        /\ AllAnswers[i].gameId = id
        /\ \A j \in 1..(i - 1) : AllAnswers[j].gameId # id

\* C22.  generateCandidates returns no two items of the same identifier; it
\* returns every identifier some source answered, with the record first seen
\* when the sources are read in order, and in first-seen order.
C22_FirstSeenWins ==
    pc = "done" =>
        /\ \A i, j \in 1..Len(candidates) :
              i < j => candidates[i].gameId # candidates[j].gameId
        /\ {candidates[i].gameId : i \in 1..Len(candidates)}
              = {AllAnswers[i].gameId : i \in 1..Len(AllAnswers)}
        /\ \A i \in 1..Len(candidates) :
              candidates[i] = AllAnswers[FirstSeenAt(candidates[i].gameId)]
        /\ \A i, j \in 1..Len(candidates) :
              i < j => FirstSeenAt(candidates[i].gameId) < FirstSeenAt(candidates[j].gameId)

\* Two sources answered different records of g1, and one source answered g1
\* twice; generateCandidates returned g2 before g1.
C22_Witness ==
    /\ pc = "done"
    /\ Len(candidates) = 2
    /\ candidates[1].gameId = "g2"
    /\ \E i, j \in 1..Len(AllAnswers) :
          /\ AllAnswers[i].gameId = "g1"
          /\ AllAnswers[j].gameId = "g1"
          /\ AllAnswers[i] # AllAnswers[j]
    /\ \E name \in Range(SourcesRead) :
          Len(sourceDb[name]) = 2 /\ sourceDb[name][1].gameId = sourceDb[name][2].gameId

(***************************************************************************)
(* Claims about the slots of injectSponsored (SpecBuckets).                *)
(***************************************************************************)
\* The sponsored candidates injectSponsored selects: those whose identifier
\* is not in the diversified list, at most maxSponsoredPerList of them.
SelectedSponsored ==
    LET fresh == SelectSeq(sponsoredGames,
                           LAMBDA sg : \A i \in 1..Len(diversified) :
                                          diversified[i].game.gameId # sg.game.gameId)
    IN SubSeq(fresh, 1, Min(sponsoredInjector, Len(fresh)))

\* The output index (0-based) of the i-th selected sponsored item (0-based),
\* for n organic and k sponsored items.
SlotOf(i, n, k) == (n \div (k + 1)) * (i + 1) + i

\* The items of seq at the positions (1-based) outside `skipped`, in order.
RECURSIVE Without(_, _, _)
Without(seq, skipped, p) ==
    IF p > Len(seq) THEN <<>>
    ELSE (IF p \in skipped THEN <<>> ELSE <<seq[p]>>) \o Without(seq, skipped, p + 1)

\* C23.  With k >= 1 selected sponsored items and n organic items, the i-th
\* selected item is at output index floor(n/(k+1))*(i+1)+i, and the other
\* output positions hold the organic items in their order.
C23_SponsoredAtSlots ==
    LET n == Len(diversified)
        k == Len(SelectedSponsored)
    IN (Injected /\ k >= 1) =>
          /\ \A i \in 0..(k - 1) :
                /\ SlotOf(i, n, k) + 1 \in 1..Len(withSponsored)
                /\ withSponsored[SlotOf(i, n, k) + 1] = SelectedSponsored[i + 1]
          /\ Without(withSponsored, {SlotOf(i, n, k) + 1 : i \in 0..(k - 1)}, 1) = diversified

\* Two organic items and one selected sponsored item: the sponsored item is
\* at index 1, between the organic ones.
C23_Witness ==
    /\ Injected
    /\ Len(diversified) = 2
    /\ Len(SelectedSponsored) = 1
    /\ Len(withSponsored) = 3
    /\ withSponsored[2] = SelectedSponsored[1]

\* The number of positions of seq that hold x.
Occurrences(seq, x) == Cardinality({p \in 1..Len(seq) : seq[p] = x})

\* C24.  The output of injectSponsored has n + k entries and holds every
\* organic item and every selected sponsored item as often as the inputs do;
\* with no sponsored item selected, the output is the input list.
C24_NoItemLost ==
    LET n == Len(diversified)
        k == Len(SelectedSponsored)
    IN Injected =>
          /\ Len(withSponsored) = n + k
          /\ \A x \in Range(withSponsored) \cup Range(diversified) \cup Range(SelectedSponsored) :
                Occurrences(withSponsored, x)
                   = Occurrences(diversified, x) + Occurrences(SelectedSponsored, x)
          /\ k = 0 => withSponsored = diversified

\* No organic item and two selected sponsored items: both are in the
\* output.
C24_Witness ==
    /\ Injected
    /\ Len(diversified) = 0
    /\ Len(SelectedSponsored) = 2
    /\ withSponsored = SelectedSponsored

(***************************************************************************)
(* Claims about the content of a chart (SpecChart).                        *)
(***************************************************************************)
\* The identifiers of the candidates that pass the filter of the chart type.
PassingIds ==
    {chartAll[i].gameId : i \in {j \in 1..Len(chartAll) : PassesKindFilter(chartAll[j])}}

ListedIds == {chart[i].gameId : i \in 1..Len(chart)}

IsTrendingScore(entry) ==
    LET plays7d     == metricsDb[entry.gameId].playsLast7Days
        prevPlays7d == metricsDb[entry.gameId].playsPrev7Days
    IN /\ prevPlays7d = 0 => entry.score = plays7d * 1000
       /\ prevPlays7d # 0 =>
             /\ entry.score * prevPlays7d <= (plays7d - prevPlays7d) * 1000
             /\ (plays7d - prevPlays7d) * 1000 < (entry.score + 1) * prevPlays7d
       /\ (plays7d = 100 /\ prevPlays7d = 50) => entry.score = 1000
       /\ (plays7d = 40 /\ prevPlays7d = 0) => entry.score = 40000

\* C26.  The score of an entry of Top Trending and of Trending in Genre is
\* plays7d when prevPlays7d = 0 and (plays7d - prevPlays7d) / prevPlays7d
\* otherwise: 1 for 100 and 50, 40 for 40 and 0.
C26_TrendingScore ==
    (chartPc = "done" /\ chartType \in {"TOP_TRENDING", "TRENDING_IN_GENRE"}) =>
        \A i \in 1..Len(chart) : IsTrendingScore(chart[i])

\* Top Trending over g1 with 40 plays in the last 7 days and none in the 7
\* days before: its entry has score 40.
C26_Witness ==
    /\ chartPc = "done"
    /\ chartType = "TOP_TRENDING"
    /\ metricsDb["g1"].playsLast7Days = 40
    /\ metricsDb["g1"].playsPrev7Days = 0
    /\ \E i \in 1..Len(chart) : chart[i].gameId = "g1" /\ chart[i].score = 40000

(***************************************************************************)
(* Claims about filterEligible and isEligible together (SpecFilter).       *)
(***************************************************************************)
\* filterEligible returned the candidates isEligible accepts, in the order
\* of the input, and the answer of the isEligible call says whether its game
\* is among them.
FilterAgrees ==
    /\ Filtered =>
          eligible = SelectSeq(candidates,
                               LAMBDA game : isEligible(eligibilityFilter, game, userContext))
    /\ (Filtered /\ Judged) =>
          (verdict.result <=> \E i \in 1..Len(eligible) : eligible[i] = verdict.game)

\* C27.  filterEligible returns exactly the subsequence of the input items
\* for which isEligible is true, in input order, and neither call changes
\* the input list or the filter.
C27_FilterIsSubsequenceOfEligible ==
    /\ []FilterAgrees
    /\ [][candidates' = candidates /\ eligibilityFilter' = eligibilityFilter]_vars

\* Of two candidates filterEligible returned the second only, and isEligible
\* answered false for the first.
C27_Witness ==
    /\ Filtered
    /\ Judged
    /\ Len(candidates) = 2
    /\ eligible = <<candidates[2]>>
    /\ verdict.game = candidates[1]
    /\ ~verdict.result

(***************************************************************************)
(* Claims about the diversity rules after injection (Spec).                *)
(***************************************************************************)
\* The games of the recommended_for_you bucket, <<>> when there is none.
RecommendedBucketGames ==
    IF \E b \in 1..Len(buckets) : buckets[b].id = "recommended_for_you"
    THEN buckets[CHOOSE b \in 1..Len(buckets) : buckets[b].id = "recommended_for_you"].games
    ELSE <<>>

\* C28.  In the recommended_for_you bucket generateRecommendations returns,
\* the games of any one genre are at most diversityRules.maxPerGenre.
C28_GenreCapAfterInjection ==
    pc = "done" =>
        \A genreId \in UNION {DOMAIN g.genreVector : g \in Catalog} :
            Cardinality({k \in 1..Len(RecommendedBucketGames) :
                            genreId \in DOMAIN CatalogGame(RecommendedBucketGames[k]).genreVector})
               <= usedConfig.diversityPass.diversityRules.maxPerGenre

(***************************************************************************)
(* Claims about the all-multiplayer rule (SpecDiversify).                  *)
(***************************************************************************)
\* C29.  With avoidAllMultiplayer on, the list diversify builds never holds
\* two or more items that are all MULTIPLAYER, at any point of the pass, and
\* from an input of MULTIPLAYER items only it holds at most one item.
C29_NeverAllMultiplayer ==
    diversityPass.diversityRules.avoidAllMultiplayer =>
        /\ Len(diversified) >= 2 =>
              \E i \in 1..Len(diversified) : ~IsMultiplayer(diversified[i])
        /\ (\A i \in 1..Len(sortedGames) : IsMultiplayer(sortedGames[i])) =>
              Len(diversified) <= 1

\* Three MULTIPLAYER items that no genre cap and no maxResults would stop:
\* diversify returned the first one only.
C29_Witness ==
    /\ divPc = "done"
    /\ diversityPass.diversityRules.avoidAllMultiplayer
    /\ diversityPass.maxResults = 3
    /\ diversityPass.diversityRules.maxPerGenre = 2
    /\ Len(sortedGames) = 3
    /\ \A i \in 1..3 : IsMultiplayer(sortedGames[i])
    /\ diversified = <<sortedGames[1]>>

(***************************************************************************)
(* Claims about the genre id of generateChart (SpecChart).                 *)
(***************************************************************************)
\* C30.  generateChart for TRENDING_IN_GENRE with a genre id, the id 0
\* included, does not fail with the caller error (it fails only if a call of
\* the data source rejects), and the chart it returns holds games of that
\* genre only.
C30_AnyGenreIdAccepted ==
    (chartPc # "idle" /\ chartType = "TRENDING_IN_GENRE" /\ chartGenre # <<>>) =>
        /\ chartPc = "failed" => rejected # "none"
        /\ chartPc = "done" => ListedIds \subseteq PassingIds

====
